---- MODULE Spec2Model ----
(***************************************************************************)
(* Verification model of the CRM export pipeline                           *)
(* (hussain-magshield/magshield_data_pipeline).                            *)
(*                                                                         *)
(* The module holds one state machine per component:                       *)
(*   - safe_get         : the resilient fetch client (retry / backoff)     *)
(*   - fetch_all_paged  : the parallel pager (probe, worker pool, merge)   *)
(*   - sequential pagers: fetch_organisations, fetch_all_tasks,            *)
(*                        fetch_all_quotations, fetch_all_users            *)
(*   - main_<domain>    : the export functions' control flow               *)
(*   - main_opportunity : the row builder with product/invoice fan-out     *)
(*   - DataFrame / drop_duplicates : the row de-duplication step           *)
(*   - lookup tables    : the ID -> name caches and their worker pools     *)
(*   - format_date_only : the date conversion (strptime / strftime)        *)
(*   - HttpTrigger1/3/4 : init_token_once, final*, upload_if_file_exists   *)
(*   - Site Name        : build_site_links and the row's Site Name cell    *)
(*   - worker pool      : the executor of fetch_all_paged on its own       *)
(*   - product maps     : build_opp_product_maps and its 20 workers        *)
(* Each component has its own Init/Next pair; the variables of the other   *)
(* components stay at their idle values.                                   *)
(***************************************************************************)
EXTENDS Integers, Sequences, FiniteSets, Bags, TLC

VARIABLES
    sgCall,     \* safe_get: the running call (loop variable, result, counters)
    sgLog,      \* safe_get: ordered log of the requests, sleeps and return
    pgPc,       \* fetch_all_paged: position of the calling thread
    pgArgs,     \* fetch_all_paged: module variant and the `top` argument
    pgServer,   \* the endpoint: collection size, X-Total-Count header sent or not
    pgProbe,    \* fetch_all_paged: the safe_get call of the probe
    pgFut,      \* fetch_all_paged: the futures, one per page index
    pgRecords,  \* fetch_all_paged: the `records` list
    pgReqs,     \* bag of the page requests (skip, top) handed to safe_get
    sqPc,       \* sequential pager: position ("loop", "done", "raised")
    sqArgs,     \* sequential pager: which function runs, and its page size
    sqServer,   \* the endpoint: collection size, X-Total-Count header sent or not
    sqCall,     \* sequential pager: the safe_get call in progress
    sqSkip,     \* sequential pager: the `skip` local
    sqList,     \* sequential pager: the list being returned
    sqHist,     \* how the page requests made so far ended, in order
    exDomain,   \* export function: which main_<domain> runs
    exPc,       \* export function: index of the next step of its flow
    exFetched,  \* export function: the fetches made, each with the step that made it
    exPrimary,  \* export function: number of primary records fetched
    exRows,     \* export function: number of rows built
    exWritten,  \* export function: df.to_excel was called
    exRet,      \* export function: "running", "None" or the output file
    ddRows,     \* de-duplication: the `rows` list (dicts in insertion order)
    ddFrame,    \* de-duplication: the DataFrame `df`
    ddPasses,   \* de-duplication: how often drop_duplicates was applied
    ddFirst,    \* de-duplication: `df` as it was after the first pass
    opIn,       \* main_opportunity: the fetched collections and product maps
    opPc,       \* main_opportunity: position in the function
    opLookup,   \* main_opportunity: invoice_lookup (SKU -> invoice rows)
    opIdx,      \* main_opportunity: opportunities handled by the row loop
    opMatched,  \* main_opportunity: invoice_list of each handled opportunity
    opRows,     \* main_opportunity: the `rows` list
    opFrame,    \* main_opportunity: the de-duplicated frame handed to to_excel
    lkKind,     \* lookup build: which lookup table of which export is built
    lkIn,       \* lookup build: the primary records (each with the ID it refers to)
    lkPc,       \* lookup build: position of the main thread
    lkFut,      \* lookup build: the futures of the worker pool, one per job
    lkTable,    \* lookup build: the lookup table (cache dict)
    lkRows,     \* lookup build: the rows built from the primary records
    lkRun,      \* lookup tables: number of the export run in this process
    dtIn,       \* format_date_only: the argument, with the parts it was put together from
    dtPc,       \* format_date_only: "called" or "returned"
    dtOut,      \* format_date_only: the return value
    trToken,    \* the process: callable.ACCESS_TOKEN ("None" until acquired)
    trCold,     \* the process: one_drive._COLD_START
    trDisk,     \* the process: the export files present in /tmp
    trAcquired, \* how often get_access_token_via_refresh_token was performed
    trThreads,  \* the trigger invocations of the process, one record each
    stIn,       \* site name: the OpportunityLink collection and the opportunity of the row
    stPc,       \* site name: position ("links", "row", "done")
    stMap,      \* site name: site_links_map
    stIds,      \* site name: site_org_ids
    stNames,    \* site name: site_names
    stName,     \* site name: the Site Name cell of the row
    plArgs,     \* worker pool: module variant and total_pages
    plPc,       \* worker pool: position of the submitting thread
    plNext,     \* worker pool: next i of range(total_pages)
    plQueue,    \* worker pool: the executor's work queue (page indexes)
    plTaken,    \* worker pool: page indexes handed to a worker, in order
    plBusy,     \* worker pool: number of workers inside fetch_page
    plDone,     \* worker pool: number of completed futures
    pmIn,       \* product maps: the OpportunityLineItem records
    pmPc,       \* product maps: position of the calling thread
    pmW,        \* product maps: one process_line_item call per line item
    pmIds,      \* product maps: opp_product_ids (opportunity ID -> set)
    pmCodes,    \* product maps: opp_product_codes (opportunity ID -> set)
    pmOut       \* product maps: the two dicts of lists returned

sgVars == <<sgCall, sgLog>>
pgVars == <<pgPc, pgArgs, pgServer, pgProbe, pgFut, pgRecords, pgReqs>>
sqVars == <<sqPc, sqArgs, sqServer, sqCall, sqSkip, sqList, sqHist>>
exVars == <<exDomain, exPc, exFetched, exPrimary, exRows, exWritten, exRet>>
ddVars == <<ddRows, ddFrame, ddPasses, ddFirst>>
opVars == <<opIn, opPc, opLookup, opIdx, opMatched, opRows, opFrame>>
lkVars == <<lkKind, lkIn, lkPc, lkFut, lkTable, lkRows, lkRun>>
dtVars == <<dtIn, dtPc, dtOut>>
trVars == <<trToken, trCold, trDisk, trAcquired, trThreads>>
stVars == <<stIn, stPc, stMap, stIds, stNames, stName>>
plVars == <<plArgs, plPc, plNext, plQueue, plTaken, plBusy, plDone>>
pmVars == <<pmIn, pmPc, pmW, pmIds, pmCodes, pmOut>>

\* for each component, the variables of the other components
othersSg == <<pgVars, sqVars, exVars, ddVars, opVars, lkVars, dtVars, trVars, stVars, plVars, pmVars>>
othersPg == <<sgVars, sqVars, exVars, ddVars, opVars, lkVars, dtVars, trVars, stVars, plVars, pmVars>>
othersSq == <<sgVars, pgVars, exVars, ddVars, opVars, lkVars, dtVars, trVars, stVars, plVars, pmVars>>
othersEx == <<sgVars, pgVars, sqVars, ddVars, opVars, lkVars, dtVars, trVars, stVars, plVars, pmVars>>
othersDd == <<sgVars, pgVars, sqVars, exVars, opVars, lkVars, dtVars, trVars, stVars, plVars, pmVars>>
othersOp == <<sgVars, pgVars, sqVars, exVars, ddVars, lkVars, dtVars, trVars, stVars, plVars, pmVars>>
othersLk == <<sgVars, pgVars, sqVars, exVars, ddVars, opVars, dtVars, trVars, stVars, plVars, pmVars>>
othersDt == <<sgVars, pgVars, sqVars, exVars, ddVars, opVars, lkVars, trVars, stVars, plVars, pmVars>>
othersTr == <<sgVars, pgVars, sqVars, exVars, ddVars, opVars, lkVars, dtVars, stVars, plVars, pmVars>>
othersSt == <<sgVars, pgVars, sqVars, exVars, ddVars, opVars, lkVars, dtVars, trVars, plVars, pmVars>>
othersPl == <<sgVars, pgVars, sqVars, exVars, ddVars, opVars, lkVars, dtVars, trVars, stVars, pmVars>>
othersPm == <<sgVars, pgVars, sqVars, exVars, ddVars, opVars, lkVars, dtVars, trVars, stVars, plVars>>

vars == <<sgCall, sgLog, pgPc, pgArgs, pgServer, pgProbe, pgFut, pgRecords, pgReqs,
          sqPc, sqArgs, sqServer, sqCall, sqSkip, sqList, sqHist,
          exDomain, exPc, exFetched, exPrimary, exRows, exWritten, exRet,
          ddRows, ddFrame, ddPasses, ddFirst,
          opIn, opPc, opLookup, opIdx, opMatched, opRows, opFrame,
          lkKind, lkIn, lkPc, lkFut, lkTable, lkRows, lkRun,
          dtIn, dtPc, dtOut,
          trToken, trCold, trDisk, trAcquired, trThreads,
          stIn, stPc, stMap, stIds, stNames, stName,
          plArgs, plPc, plNext, plQueue, plTaken, plBusy, plDone,
          pmIn, pmPc, pmW, pmIds, pmCodes, pmOut>>

----------------------------------------------------------------------------
(* Bounds of the model *)

\* largest max_retries argument a safe_get call is started with
MaxRetriesArg == 5

\* largest collection the endpoint holds (records are numbered 1..count)
MaxCount == 5

\* largest number of records a primary fetch returns to an export function
MaxPrimary == 3

\* largest number of rows one opportunity fans out to
MaxFanOut == 2

\* largest number of rows handed to the de-duplication step
MaxRows == 3

\* how often the de-duplication step is applied to one frame
MaxPasses == 2

\* largest number of products linked to the opportunity under study
MaxProducts == 3

\* largest number of Invoice_History__c records
MaxInvoices == 2

\* largest number of primary records a lookup table is built for
MaxRecords == 2

\* largest number of trigger invocations one process serves
MaxInvocations == 2

\* largest number of runs of one export function in a worker process
MaxRuns == 2

\* largest number of OpportunityLink records in the collection
MaxLinks == 3

\* largest number of OpportunityLineItem records
MaxLineItems == 2

\* largest number of pages a paged collection has when the worker pool of
\* fetch_all_paged is studied on its own
MaxPages == 21

\* largest `top` (page size) argument of a pager call; the smallest is 2
MaxTop == 3

----------------------------------------------------------------------------
(* requests.get outcomes *)

\* exceptions safe_get catches in its first except clause
RetryableErrors == {"ChunkedEncodingError", "ConnectionError", "Timeout"}

\* status codes of a well-formed response
StatusCodes == {200, 204, 404, 500}

\* what one requests.get(...) can produce: an exception, or a response
Outcomes ==
    [exc : RetryableErrors, status : {0}] \cup [exc : {"none"}, status : StatusCodes]

\* r.raise_for_status(): HTTPError for 4xx and 5xx
RaisesHTTPError(o) == o.exc = "none" /\ o.status >= 400 /\ o.status < 600

IsRetryable(o) == o.exc \in RetryableErrors

----------------------------------------------------------------------------
(* safe_get *)

\* backoff = 2
backoff == 2

RECURSIVE Power(_, _)
Power(b, e) == IF e = 0 THEN 1 ELSE b * Power(b, e - 1)

\* wait = backoff ** attempt
WaitBroken(attempt) == backoff * attempt
Wait(attempt) == Power(backoff, attempt)

NoCall == [pc |-> "idle", attempt |-> 0, max |-> 0, requests |-> 0,
           slept |-> 0, result |-> "pending", status |-> 0]

\* entering safe_get: range(max_retries) is empty for max_retries = 0 and the
\* function falls through to the trailing `return None`
NewCall(max_retries) ==
    [pc |-> IF max_retries > 0 THEN "request" ELSE "returned",
     attempt |-> 0, max |-> max_retries, requests |-> 0, slept |-> 0,
     result |-> IF max_retries > 0 THEN "pending" ELSE "None", status |-> 0]

\* the except clause for the three network errors decides between sleeping
\* and giving up
RetriesLeftBroken(c) == c.attempt < c.max
RetriesLeft(c) == c.attempt < c.max - 1

\* the except clause for requests.HTTPError
OnHTTPErrorBroken(c) ==
    IF RetriesLeft(c) THEN [c EXCEPT !.pc = "sleep"]
    ELSE [c EXCEPT !.pc = "returned", !.result = "None"]
OnHTTPError(c) == [c EXCEPT !.pc = "returned", !.result = "None"]

\* one pass through the try block: requests.get, raise_for_status, return r
SafeGetAttempt(c, o) ==
    LET d == [c EXCEPT !.requests = @ + 1] IN
    IF IsRetryable(o)
    THEN IF RetriesLeft(d)
         THEN [d EXCEPT !.pc = "sleep"]
         ELSE [d EXCEPT !.pc = "returned", !.result = "None"]
    ELSE IF RaisesHTTPError(o)
    THEN OnHTTPError(d)
    ELSE [d EXCEPT !.pc = "returned", !.result = "Response", !.status = o.status]

\* time.sleep(wait), then the next iteration of the for loop
SafeGetSleep(c) ==
    [c EXCEPT !.pc = "request", !.slept = @ + Wait(c.attempt), !.attempt = @ + 1]

\* a response object is truthy iff its status is below 400 (Response.ok);
\* None is falsy
Truthy(c) == c.result = "Response" /\ c.status < 400

----------------------------------------------------------------------------
(* Idle values: a component that is not running keeps its variables here *)

SgIdle == sgCall = NoCall /\ sgLog = <<>>

PgIdle ==
    /\ pgPc = "idle"
    /\ pgArgs = [variant |-> "equipment", top |-> 0]
    /\ pgServer = [count |-> 0, header |-> FALSE]
    /\ pgProbe = NoCall
    /\ pgFut = <<>>
    /\ pgRecords = <<>>
    /\ pgReqs = EmptyBag

SqIdle ==
    /\ sqPc = "idle"
    /\ sqArgs = [fn |-> "fetch_organisations", top |-> 0]
    /\ sqServer = [count |-> 0, header |-> FALSE]
    /\ sqCall = NoCall
    /\ sqSkip = 0
    /\ sqList = <<>>
    /\ sqHist = <<>>

ExIdle ==
    /\ exDomain = "none"
    /\ exPc = 0
    /\ exFetched = {}
    /\ exPrimary = 0
    /\ exRows = 0
    /\ exWritten = FALSE
    /\ exRet = "idle"

NoFrame == [columns |-> <<>>, index |-> <<>>, cells |-> <<>>]

DdIdle ==
    /\ ddRows = <<>>
    /\ ddFrame = NoFrame
    /\ ddPasses = 0
    /\ ddFirst = NoFrame

OpIdle ==
    /\ opIn = [opps |-> <<>>, pids |-> <<>>, skus |-> <<>>, invoices |-> <<>>]
    /\ opPc = "idle"
    /\ opLookup = <<>>
    /\ opIdx = 0
    /\ opMatched = <<>>
    /\ opRows = <<>>
    /\ opFrame = NoFrame

LkIdle ==
    /\ lkRun = 0
    /\ lkKind = "none"
    /\ lkIn = <<>>
    /\ lkPc = "idle"
    /\ lkFut = <<>>
    /\ lkTable = <<>>
    /\ lkRows = <<>>

DtIdle == dtIn = <<>> /\ dtPc = "idle" /\ dtOut = <<>>

\* an invocation slot no request has arrived for
NoResponse == [status_code |-> 0, status |-> "", message |-> ""]
NoInvocation ==
    [trigger |-> "none", pc |-> "idle", step |-> 0, path |-> "None", drive |-> "none",
     err |-> "none", ran |-> 0, response |-> NoResponse]

TrIdle ==
    /\ trToken = "None"
    /\ trCold = TRUE
    /\ trDisk = {}
    /\ trAcquired = 0
    /\ trThreads = [i \in 1..MaxInvocations |-> NoInvocation]

StIdle ==
    /\ stIn = <<>>
    /\ stPc = "idle"
    /\ stMap = <<>>
    /\ stIds = <<>>
    /\ stNames = <<>>
    /\ stName = <<>>

PlIdle ==
    /\ plArgs = <<>>
    /\ plPc = "idle"
    /\ plNext = 0
    /\ plQueue = <<>>
    /\ plTaken = <<>>
    /\ plBusy = 0
    /\ plDone = 0

PmIdle ==
    /\ pmIn = <<>>
    /\ pmPc = "idle"
    /\ pmW = <<>>
    /\ pmIds = <<>>
    /\ pmCodes = <<>>
    /\ pmOut = <<>>

\* for each component, the idle values of the other components
IdleButSg == PgIdle /\ SqIdle /\ ExIdle /\ DdIdle /\ OpIdle /\ LkIdle /\ DtIdle /\ TrIdle /\ StIdle /\ PlIdle /\ PmIdle
IdleButPg == SgIdle /\ SqIdle /\ ExIdle /\ DdIdle /\ OpIdle /\ LkIdle /\ DtIdle /\ TrIdle /\ StIdle /\ PlIdle /\ PmIdle
IdleButSq == SgIdle /\ PgIdle /\ ExIdle /\ DdIdle /\ OpIdle /\ LkIdle /\ DtIdle /\ TrIdle /\ StIdle /\ PlIdle /\ PmIdle
IdleButEx == SgIdle /\ PgIdle /\ SqIdle /\ DdIdle /\ OpIdle /\ LkIdle /\ DtIdle /\ TrIdle /\ StIdle /\ PlIdle /\ PmIdle
IdleButDd == SgIdle /\ PgIdle /\ SqIdle /\ ExIdle /\ OpIdle /\ LkIdle /\ DtIdle /\ TrIdle /\ StIdle /\ PlIdle /\ PmIdle
IdleButOp == SgIdle /\ PgIdle /\ SqIdle /\ ExIdle /\ DdIdle /\ LkIdle /\ DtIdle /\ TrIdle /\ StIdle /\ PlIdle /\ PmIdle
IdleButLk == SgIdle /\ PgIdle /\ SqIdle /\ ExIdle /\ DdIdle /\ OpIdle /\ DtIdle /\ TrIdle /\ StIdle /\ PlIdle /\ PmIdle
IdleButDt == SgIdle /\ PgIdle /\ SqIdle /\ ExIdle /\ DdIdle /\ OpIdle /\ LkIdle /\ TrIdle /\ StIdle /\ PlIdle /\ PmIdle
IdleButTr == SgIdle /\ PgIdle /\ SqIdle /\ ExIdle /\ DdIdle /\ OpIdle /\ LkIdle /\ DtIdle /\ StIdle /\ PlIdle /\ PmIdle
IdleButSt == SgIdle /\ PgIdle /\ SqIdle /\ ExIdle /\ DdIdle /\ OpIdle /\ LkIdle /\ DtIdle /\ TrIdle /\ PlIdle /\ PmIdle
IdleButPl == SgIdle /\ PgIdle /\ SqIdle /\ ExIdle /\ DdIdle /\ OpIdle /\ LkIdle /\ DtIdle /\ TrIdle /\ StIdle /\ PmIdle
IdleButPm == SgIdle /\ PgIdle /\ SqIdle /\ ExIdle /\ DdIdle /\ OpIdle /\ LkIdle /\ DtIdle /\ TrIdle /\ StIdle /\ PlIdle

----------------------------------------------------------------------------
(* The endpoint *)

\* the records a GET with skip/top returns from a collection of `count` records
ServerPage(count, skip, top) ==
    [k \in 1..(IF skip >= count THEN 0
               ELSE IF skip + top <= count THEN top ELSE count - skip) |-> skip + k]

----------------------------------------------------------------------------
(* fetch_all_paged (equiment.py, invoice.py, opportunity.py) *)

\* safe_get(url, params=None, max_retries=5, timeout=60)
DefaultMaxRetries == 5

\* ThreadPoolExecutor(max_workers=10) in equiment.py and invoice.py
PoolSizeFixed == 10
\* min(20, total_pages or 1) in opportunity.py
PoolSizeCap == 20

Variants == {"equipment", "opportunity"}

\* the values of the `top` argument
TopValues == 2..MaxTop

\* what is left of a safe_get call once it has returned: the response or None
Result(c) == [NoCall EXCEPT !.pc = "returned", !.result = c.result, !.status = c.status]

\* total_pages = (total_count // top) + (1 if total_count % top != 0 else 0)
TotalPagesBroken(total_count, top) == total_count \div top
TotalPages(total_count, top) ==
    (total_count \div top) + (IF total_count % top # 0 THEN 1 ELSE 0)

\* int(first_resp.headers.get("X-Total-Count", 0))
TotalCount(server) == IF server.header THEN server.count ELSE 0

MaxWorkersBroken(variant, total_pages) == PoolSizeCap
MaxWorkers(variant, total_pages) ==
    IF variant = "opportunity"
    THEN (IF PoolSizeCap < (IF total_pages = 0 THEN 1 ELSE total_pages)
          THEN PoolSizeCap ELSE (IF total_pages = 0 THEN 1 ELSE total_pages))
    ELSE PoolSizeFixed

NewFuture == [st |-> "new", call |-> NoCall, data |-> <<>>, why |-> "none", raised |-> FALSE]

\* fetch_page's last line: r.json() if r and r.status_code == 200 else []
\* (r.json() on None raises AttributeError; the guard keeps it from happening)
FetchPageReturnBroken(c, page) ==
    IF c.result = "None" THEN [data |-> <<>>, raised |-> TRUE]
    ELSE [data |-> page, raised |-> FALSE]
FetchPageReturn(c, page) ==
    IF Truthy(c) /\ c.status = 200
    THEN [data |-> page, raised |-> FALSE]
    ELSE [data |-> <<>>, raised |-> FALSE]

\* why a finished page fetch did or did not deliver its page
Why(c, o) ==
    IF c.result = "Response" THEN (IF c.status = 200 THEN "ok" ELSE "non200")
    ELSE IF IsRetryable(o) THEN "exhausted" ELSE "http"

Pages == DOMAIN pgFut
Running == {i \in Pages : pgFut[i].st = "running"}

\* records = []; first_resp = safe_get(..., params={"top": 1, "count_total": "true"})
InitPager ==
    /\ pgPc = "probe"
    /\ \E v \in Variants, t \in TopValues : pgArgs = [variant |-> v, top |-> t]
    /\ \E n \in 0..MaxCount, h \in BOOLEAN : pgServer = [count |-> n, header |-> h]
    /\ pgProbe = NewCall(DefaultMaxRetries)
    /\ pgFut = <<>>
    /\ pgRecords = <<>>
    /\ pgReqs = EmptyBag
    /\ IdleButPg

\* if not first_resp: return records
ProbeFailedBroken(c) == FALSE
ProbeFailed(c) == ~Truthy(c)

\* after the probe returned: `if not resp: return records`, the page count,
\* and (opportunity.py only) `if total_count == 0: return records`
AfterProbe(c) ==
    LET total_count == TotalCount(pgServer)
        total_pages == TotalPages(total_count, pgArgs.top)
    IN  IF ProbeFailed(c)
        THEN pgPc' = "done" /\ pgFut' = <<>>
        ELSE IF pgArgs.variant = "opportunity" /\ total_count = 0
        THEN pgPc' = "done" /\ pgFut' = <<>>
        ELSE /\ pgPc' = IF total_pages = 0 THEN "merge" ELSE "submit"
             /\ pgFut' = [i \in 0..(total_pages - 1) |-> NewFuture]

PgProbeRequest ==
    /\ pgPc = "probe"
    /\ pgProbe.pc = "request"
    /\ \E o \in Outcomes :
          LET c == SafeGetAttempt(pgProbe, o) IN
          IF c.pc = "returned"
          THEN pgProbe' = Result(c) /\ AfterProbe(c)
          ELSE pgProbe' = c /\ UNCHANGED <<pgPc, pgFut>>
    /\ UNCHANGED <<pgArgs, pgServer, pgRecords, pgReqs, othersPg>>

PgProbeSleep ==
    /\ pgPc = "probe"
    /\ pgProbe.pc = "sleep"
    /\ pgProbe' = SafeGetSleep(pgProbe)
    /\ UNCHANGED <<pgPc, pgArgs, pgServer, pgFut, pgRecords, pgReqs, othersPg>>

\* futures = {ex.submit(fetch_page, i): i for i in range(total_pages)}
PgSubmit ==
    /\ pgPc = "submit"
    /\ LET i == Cardinality({j \in Pages : pgFut[j].st # "new"}) IN
          /\ pgFut' = [pgFut EXCEPT ![i].st = "queued"]
          /\ pgPc' = IF i = Cardinality(Pages) - 1 THEN "merge" ELSE "submit"
    /\ UNCHANGED <<pgArgs, pgServer, pgProbe, pgRecords, pgReqs, othersPg>>

\* a pool worker takes fetch_page(i) off the queue and calls safe_get
PgStart(i) ==
    /\ pgFut[i].st = "queued"
    /\ Cardinality(Running) < MaxWorkers(pgArgs.variant, Cardinality(Pages))
    /\ pgFut' = [pgFut EXCEPT ![i].st = "running",
                              ![i].call = NewCall(DefaultMaxRetries)]
    /\ pgReqs' = pgReqs (+) SetToBag({[skip |-> i * pgArgs.top, top |-> pgArgs.top]})
    /\ UNCHANGED <<pgPc, pgArgs, pgServer, pgProbe, pgRecords, othersPg>>

PgPageRequest(i) ==
    /\ pgFut[i].st = "running"
    /\ pgFut[i].call.pc = "request"
    /\ \E o \in Outcomes :
          LET c == SafeGetAttempt(pgFut[i].call, o)
              ret == FetchPageReturn(c, ServerPage(pgServer.count, i * pgArgs.top, pgArgs.top))
          IN  IF c.pc = "returned"
              THEN pgFut' = [pgFut EXCEPT ![i] = [st |-> "finished", call |-> NoCall,
                                                  data |-> ret.data, why |-> Why(c, o),
                                                  raised |-> ret.raised]]
              ELSE pgFut' = [pgFut EXCEPT ![i].call = c]
    /\ UNCHANGED <<pgPc, pgArgs, pgServer, pgProbe, pgRecords, pgReqs, othersPg>>

PgPageSleep(i) ==
    /\ pgFut[i].st = "running"
    /\ pgFut[i].call.pc = "sleep"
    /\ pgFut' = [pgFut EXCEPT ![i].call = SafeGetSleep(pgFut[i].call)]
    /\ UNCHANGED <<pgPc, pgArgs, pgServer, pgProbe, pgRecords, pgReqs, othersPg>>

\* for f in as_completed(futures): data = f.result(); if data: records.extend(data)
PgMerge(i) ==
    /\ pgPc = "merge"
    /\ pgFut[i].st = "finished"
    /\ pgFut' = [pgFut EXCEPT ![i].st = "merged"]
    /\ IF pgFut[i].raised
       THEN pgPc' = "raised" /\ UNCHANGED pgRecords
       ELSE /\ pgRecords' = IF pgFut[i].data # <<>> THEN pgRecords \o pgFut[i].data
                            ELSE pgRecords
            /\ UNCHANGED pgPc
    /\ UNCHANGED <<pgArgs, pgServer, pgProbe, pgReqs, othersPg>>

\* leaving the with block and `return records`
PgReturn ==
    /\ pgPc = "merge"
    /\ \A i \in Pages : pgFut[i].st = "merged"
    /\ pgPc' = "done"
    /\ UNCHANGED <<pgArgs, pgServer, pgProbe, pgFut, pgRecords, pgReqs, othersPg>>

NextPager ==
    \/ PgProbeRequest
    \/ PgProbeSleep
    \/ PgSubmit
    \/ \E i \in Pages : PgStart(i)
    \/ \E i \in Pages : PgPageRequest(i)
    \/ \E i \in Pages : PgPageSleep(i)
    \/ \E i \in Pages : PgMerge(i)
    \/ PgReturn

SpecPager == InitPager /\ [][NextPager]_vars

----------------------------------------------------------------------------
(* Properties of fetch_all_paged (checked under SpecPager) *)

\* ceil(n / t)
CeilDiv(n, t) == (n + t - 1) \div t

\* how often record r occurs in the returned list
Occurrences(r) == Cardinality({k \in DOMAIN pgRecords : pgRecords[k] = r})

\* the page index a record of the collection lives on
PageOf(r) == (r - 1) \div pgArgs.top

ProbeReported == pgProbe.pc = "returned" /\ Truthy(pgProbe) /\ pgServer.header

\* C1: when the probe reports N records, the finished call has handed exactly
\* one page request to the fetch client for every page index i below
\* ceil(N/top), with skip = i*top and top = top, and no other request; and
\* when every page delivered, the result holds every record of the
\* collection exactly once (length N).
C1_PaginationComplete ==
    (pgPc = "done" /\ ProbeReported) =>
       LET n == pgServer.count
           top == pgArgs.top
       IN  /\ pgReqs = SetToBag({[skip |-> i * top, top |-> top] :
                                   i \in 0..(CeilDiv(n, top) - 1)})
           /\ BagCardinality(pgReqs) = CeilDiv(n, top)
           /\ (\A i \in Pages : pgFut[i].why = "ok") =>
                 /\ Len(pgRecords) = n
                 /\ \A r \in 1..n : Occurrences(r) = 1

\* C1 witness: 5 records, top = 2: three requests (skip 0, 2, 4), all five
\* records returned
C1_Witness ==
    /\ pgPc = "done"
    /\ ProbeReported
    /\ pgServer.count = 5
    /\ pgArgs.top = 2
    /\ pgReqs = SetToBag({[skip |-> 0, top |-> 2], [skip |-> 2, top |-> 2],
                          [skip |-> 4, top |-> 2]})
    /\ Len(pgRecords) = 5

\* an upper bound of the steps the safe_get call c can still take
CallRank(c) ==
    IF c.pc = "request" THEN 2 * (c.max - c.attempt)
    ELSE IF c.pc = "sleep" THEN 2 * (c.max - c.attempt) - 1
    ELSE 0

FutureRank(f) ==
    IF f.st = "new" THEN 2 * DefaultMaxRetries + 4
    ELSE IF f.st = "queued" THEN 2 * DefaultMaxRetries + 3
    ELSE IF f.st = "running" THEN CallRank(f.call) + 2
    ELSE IF f.st = "finished" THEN 1
    ELSE 0

RECURSIVE SumRanks(_)
SumRanks(S) ==
    IF S = {} THEN 0
    ELSE LET i == CHOOSE j \in S : TRUE IN FutureRank(pgFut[i]) + SumRanks(S \ {i})

\* an upper bound of the steps the whole fetch_all_paged call can still take
PagerRank ==
    IF pgPc = "probe"
    THEN CallRank(pgProbe) + (2 * DefaultMaxRetries + 4) * (MaxCount + 1) + 2
    ELSE SumRanks(Pages) + (IF pgPc \in {"submit", "merge"} THEN 1 ELSE 0)

\* the state part of C2
C2_StatePart ==
    /\ pgPc # "raised"
    /\ pgPc # "done" => ENABLED NextPager
    /\ (pgPc = "done" /\ ProbeReported) =>
          \A r \in 1..pgServer.count :
              Occurrences(r) = IF pgFut[PageOf(r)].why = "ok" THEN 1 ELSE 0

\* C2: whatever pages fail (after exhausting their retries, or otherwise), the
\* call does not raise, returns every record of every page that succeeded
\* exactly once and no record of a failed page, and terminates: it is never
\* stuck before its return, and every step lowers a bounded rank.
C2_PartialFailure ==
    /\ []C2_StatePart
    /\ [][PagerRank' < PagerRank]_vars

\* C2 witness: page 2 of 3 failed after exhausting its retries, pages 1 and 3
\* succeeded, and the call returned the three records of pages 1 and 3
C2_Witness ==
    /\ pgPc = "done"
    /\ ProbeReported
    /\ pgServer.count = 5
    /\ pgArgs.top = 2
    /\ pgFut[0].why = "ok" /\ pgFut[1].why = "exhausted" /\ pgFut[2].why = "ok"
    /\ Len(pgRecords) = 3
    /\ {pgRecords[k] : k \in DOMAIN pgRecords} = {1, 2, 5}

\* C4: when the probe's safe_get returned None, fetch_all_paged has returned
\* the empty list without raising, and no page request was or will be issued.
C4_ProbeFailure ==
    (pgProbe.pc = "returned" /\ pgProbe.result = "None") =>
       /\ pgPc = "done"
       /\ pgRecords = <<>>
       /\ pgReqs = EmptyBag
       /\ pgFut = <<>>

\* C4 witness: the endpoint holds records, but the probe failed
C4_Witness ==
    /\ pgProbe.pc = "returned"
    /\ pgProbe.result = "None"
    /\ pgServer.count > 0
    /\ pgServer.header
    /\ pgPc = "done"

----------------------------------------------------------------------------
(* The sequential pagers: fetch_organisations (organisation.py),            *)
(* fetch_all_tasks (task.py), fetch_all_quotations (quote.py),              *)
(* fetch_all_users (users.py)                                               *)

SeqFunctions ==
    {"fetch_organisations", "fetch_all_tasks", "fetch_all_quotations", "fetch_all_users"}

\* the two functions that send count_total=true and read X-Total-Count
ReadsTotalCount(fn) == fn \in {"fetch_all_quotations", "fetch_all_users"}

\* task.py: safe_get(url, params=None, max_retries=3, timeout=30)
TaskMaxRetries == 3

SeqMaxRetries(fn) == IF fn = "fetch_all_tasks" THEN TaskMaxRetries ELSE DefaultMaxRetries

InitSeq ==
    /\ sqPc = "loop"
    /\ \E f \in SeqFunctions, t \in TopValues, n \in 0..MaxCount, h \in BOOLEAN :
          /\ sqArgs = [fn |-> f, top |-> t]
          /\ sqServer = [count |-> n, header |-> h /\ ReadsTotalCount(f)]
          /\ sqCall = NewCall(SeqMaxRetries(f))
    /\ sqSkip = 0
    /\ sqList = <<>>
    /\ sqHist = <<>>
    /\ IdleButSq

\* the loop body after safe_get returned c:
\*   if not resp: break
\*   data = resp.json()          (a 2xx answer without a body makes json() raise)
\*   if not data: break
\*   list.extend(data)
\*   quote/users only: total_count = int(resp.headers.get("X-Total-Count", len(list)))
\*                     if len(list) >= total_count: break
\*   skip += top
SeqAfterGet(c) ==
    LET data == ServerPage(sqServer.count, sqSkip, sqArgs.top)
        grown == sqList \o data
        total_count == IF sqServer.header THEN sqServer.count ELSE Len(grown)
    IN  IF ~Truthy(c)
        THEN sqPc' = "done" /\ sqCall' = Result(c) /\ UNCHANGED <<sqList, sqSkip>>
        ELSE IF c.status # 200
        THEN sqPc' = "raised" /\ sqCall' = Result(c) /\ UNCHANGED <<sqList, sqSkip>>
        ELSE IF data = <<>>
        THEN sqPc' = "done" /\ sqCall' = Result(c) /\ UNCHANGED <<sqList, sqSkip>>
        ELSE IF ReadsTotalCount(sqArgs.fn) /\ Len(grown) >= total_count
        THEN sqPc' = "done" /\ sqCall' = Result(c) /\ sqList' = grown /\ UNCHANGED sqSkip
        ELSE /\ sqList' = grown
             /\ sqSkip' = sqSkip + sqArgs.top
             /\ sqCall' = NewCall(SeqMaxRetries(sqArgs.fn))
             /\ sqPc' = "loop"

SqRequest ==
    /\ sqPc = "loop"
    /\ sqCall.pc = "request"
    /\ \E o \in Outcomes :
          LET c == SafeGetAttempt(sqCall, o) IN
          IF c.pc = "returned"
          THEN SeqAfterGet(c) /\ sqHist' = Append(sqHist, Why(c, o))
          ELSE sqCall' = c /\ UNCHANGED <<sqPc, sqSkip, sqList, sqHist>>
    /\ UNCHANGED <<sqArgs, sqServer, othersSq>>

SqSleep ==
    /\ sqPc = "loop"
    /\ sqCall.pc = "sleep"
    /\ sqCall' = SafeGetSleep(sqCall)
    /\ UNCHANGED <<sqPc, sqArgs, sqServer, sqSkip, sqList, sqHist, othersSq>>

NextSeq == SqRequest \/ SqSleep

SpecSeq == InitSeq /\ [][NextSeq]_vars

----------------------------------------------------------------------------
(* Properties of the sequential pagers (checked under SpecSeq) *)

\* pages the collection has at the function's page size
SeqPages == (sqServer.count + sqArgs.top - 1) \div sqArgs.top

\* C3 (as claimed): when the collection has three pages, the request for page
\* 2 failed after exhausting its retries and no other request failed, the
\* finished call has not raised and returns the records of pages 1 and 3.
C3_SequentialTolerance ==
    (/\ sqPc \in {"done", "raised"}
     /\ SeqPages = 3
     /\ Len(sqHist) >= 2
     /\ sqHist[2] = "exhausted"
     /\ \A k \in DOMAIN sqHist : k # 2 => sqHist[k] = "ok") =>
        /\ sqPc = "done"
        /\ sqList = ServerPage(sqServer.count, 0, sqArgs.top)
                    \o ServerPage(sqServer.count, 2 * sqArgs.top, sqArgs.top)

\* the call has ended and every request it made was answered 200
EndedWithoutFailure ==
    /\ sqPc \in {"done", "raised"}
    /\ \A k \in DOMAIN sqHist : sqHist[k] = "ok"

\* C29 (as claimed): when no request fails, fetch_all_quotations and
\* fetch_all_users end normally, after at most one request per page and one
\* more, and return every record of the collection once, whether or not the
\* responses carry X-Total-Count.
C29_AllRecords ==
    (ReadsTotalCount(sqArgs.fn) /\ EndedWithoutFailure) =>
       /\ sqPc = "done"
       /\ Len(sqHist) <= SeqPages + 1
       /\ sqList = ServerPage(sqServer.count, 0, sqServer.count)

\* the same when the responses carry the header
C29_AllRecordsWithHeader ==
    sqServer.header => C29_AllRecords

----------------------------------------------------------------------------
(* The export functions main_quote, main_organisation, main_task,           *)
(* main_opportunity, main_equipment_export, main_invoice_export, main_users *)

Domains == {"quote", "organisation", "task", "opportunity", "equipment", "invoice", "users"}

\* the collection each export function exports
PrimaryEndpoint(d) ==
    CASE d = "quote" -> "Quotation"
      [] d = "organisation" -> "Organisations"
      [] d = "task" -> "Tasks"
      [] d = "opportunity" -> "Opportunities"
      [] d = "equipment" -> "Equipment__c"
      [] d = "invoice" -> "Invoice_History__c"
      [] d = "users" -> "Users"

OutputFile(d) ==
    CASE d = "quote" -> "/tmp/Quotes.xlsx"
      [] d = "organisation" -> "/tmp/Organisations BRP.xlsx"
      [] d = "task" -> "/tmp/Tasks.xlsx"
      [] d = "opportunity" -> "/tmp/Opportunities BPR.xlsx"
      [] d = "equipment" -> "/tmp/Equipment.xlsx"
      [] d = "invoice" -> "/tmp/invoice_records.xlsx"
      [] d = "users" -> "/tmp/Users.xlsx"

Lookups(eps) == [kind |-> "lookups", eps |-> eps, guarded |-> FALSE]
Primary == [kind |-> "primary", eps |-> {}, guarded |-> FALSE]
Check == [kind |-> "check", eps |-> {}, guarded |-> FALSE]
Rows == [kind |-> "rows", eps |-> {}, guarded |-> FALSE]
Write(guarded) == [kind |-> "write", eps |-> {}, guarded |-> guarded]

\* the statements of each export function, in program order; a "lookups" step
\* fetches its collections concurrently (or is a single fetch), a guarded
\* write is `if rows: ... else: return None`
Flow(d) ==
    CASE d = "quote" ->
            <<Primary, Check,
              Lookups({"Opportunities/id", "Organisations/id", "Contacts/id"}),
              Rows, Write(TRUE)>>
      [] d = "organisation" -> <<Primary, Check, Rows, Write(TRUE)>>
      [] d = "task" ->
            <<Primary, Check,
              Lookups({"TaskCategories/id", "Users/id", "Contacts/id", "Leads/id",
                       "Opportunities/id", "Organisations/id", "Projects/id", "Notes/id"}),
              Rows, Write(TRUE)>>
      [] d = "opportunity" ->
            <<Lookups({"Organisations", "Users", "Pricebook", "Product",
                       "OpportunityStateReasons", "PipelineStages"}),
              Lookups({"PricebookEntry"}), Lookups({"Invoice_History__c"}),
              Lookups({"OpportunityLineItem"}), Lookups({"OpportunityLink"}),
              Primary, Check, Rows, Write(TRUE)>>
      [] d = "equipment" ->
            <<Lookups({"Users"}), Lookups({"Organisations"}), Primary, Check, Rows,
              Write(FALSE)>>
      [] d = "invoice" ->
            <<Lookups({"Users"}), Lookups({"Organisations"}), Primary, Check, Rows,
              Write(FALSE)>>
      [] d = "users" -> <<Primary, Check, Rows, Write(TRUE)>>

Step == Flow(exDomain)[exPc]
ExRunning == exRet = "running" /\ exPc \in DOMAIN Flow(exDomain)
Fetched == {f.ep : f \in exFetched}

\* `if not <primary records>:`
NoRecordsBroken(n) == FALSE
NoRecords(n) == n = 0

\* rows the row loop can append for n primary records: one per record, and in
\* the opportunity export one per (product, invoice) combination of a record
RowCounts(d, n) == IF d = "opportunity" THEN n..(n * MaxFanOut) ELSE {n}

InitExport ==
    /\ exDomain \in Domains
    /\ exPc = 1
    /\ exFetched = {}
    /\ exPrimary = 0
    /\ exRows = 0
    /\ exWritten = FALSE
    /\ exRet = "running"
    /\ IdleButEx

\* one of the fetches of a lookup step completes; the step ends with the last
ExLookup(e) ==
    /\ ExRunning
    /\ Step.kind = "lookups"
    /\ e \in Step.eps \ Fetched
    /\ exFetched' = exFetched \cup {[ep |-> e, step |-> exPc]}
    /\ exPc' = IF Step.eps \subseteq (Fetched \cup {e}) THEN exPc + 1 ELSE exPc
    /\ UNCHANGED <<exDomain, exPrimary, exRows, exWritten, exRet, othersEx>>

\* the primary fetch returns n records (a pager returns what it could fetch)
ExPrimary ==
    /\ ExRunning
    /\ Step.kind = "primary"
    /\ \E n \in 0..MaxPrimary : exPrimary' = n
    /\ exFetched' = exFetched \cup {[ep |-> PrimaryEndpoint(exDomain), step |-> exPc]}
    /\ exPc' = exPc + 1
    /\ UNCHANGED <<exDomain, exRows, exWritten, exRet, othersEx>>

\* if not records: logging.warning(...); return None
ExCheck ==
    /\ ExRunning
    /\ Step.kind = "check"
    /\ IF NoRecords(exPrimary)
       THEN exRet' = "None" /\ UNCHANGED exPc
       ELSE exPc' = exPc + 1 /\ UNCHANGED exRet
    /\ UNCHANGED <<exDomain, exFetched, exPrimary, exRows, exWritten, othersEx>>

\* the loop over the primary records
ExRows ==
    /\ ExRunning
    /\ Step.kind = "rows"
    /\ \E r \in RowCounts(exDomain, exPrimary) : exRows' = r
    /\ exPc' = exPc + 1
    /\ UNCHANGED <<exDomain, exFetched, exPrimary, exWritten, exRet, othersEx>>

\* df = pd.DataFrame(rows); df = df.drop_duplicates(); df.to_excel(...); return output_file
ExWrite ==
    /\ ExRunning
    /\ Step.kind = "write"
    /\ IF Step.guarded /\ exRows = 0
       THEN exRet' = "None" /\ UNCHANGED exWritten
       ELSE exRet' = OutputFile(exDomain) /\ exWritten' = TRUE
    /\ UNCHANGED <<exDomain, exPc, exFetched, exPrimary, exRows, othersEx>>

NextExport ==
    \/ \E e \in UNION {Flow(exDomain)[k].eps : k \in DOMAIN Flow(exDomain)} : ExLookup(e)
    \/ ExPrimary
    \/ ExCheck
    \/ ExRows
    \/ ExWrite

SpecExport == InitExport /\ [][NextExport]_vars

----------------------------------------------------------------------------
(* Properties of the export functions (checked under SpecExport) *)

PrimaryFetched == PrimaryEndpoint(exDomain) \in Fetched

\* C8: in every export function, once the primary fetch has yielded zero
\* records the spreadsheet writer is not invoked, and the function returns None.
C8_EmptyShortCircuit ==
    (PrimaryFetched /\ exPrimary = 0) =>
       /\ ~exWritten
       /\ exRet \in {"running", "None"}
       /\ exRet = "running" => Step.kind = "check"

\* C8 witness: the opportunity export fetched its lookups, found no
\* opportunity and returned None
C8_Witness ==
    /\ exDomain = "opportunity"
    /\ PrimaryFetched
    /\ exPrimary = 0
    /\ exRet = "None"
    /\ Cardinality(exFetched) = 11

\* the fetches made by lookup steps, and the one made by the primary step
LookupFetches == {f \in exFetched : Flow(exDomain)[f.step].kind = "lookups"}
PrimaryFetches == {f \in exFetched : Flow(exDomain)[f.step].kind = "primary"}

\* C20 (as claimed): a lookup collection is requested only after the primary
\* fetch has completed, and not at all when the primary collection is empty.
C20_PrimaryFirst ==
    \A f \in LookupFetches :
       /\ \E g \in PrimaryFetches : g.step < f.step
       /\ exPrimary > 0

----------------------------------------------------------------------------
(* Python values and rows *)

\* a Python value: its type and its text
PyStr(chars) == [t |-> "str", v |-> chars]
PyNone == [t |-> "None", v |-> <<>>]
\* the value pandas puts where a row has no entry for a column
NaN == [t |-> "NaN", v |-> <<>>]

PyInt(digits) == [t |-> "int", v |-> digits]
Blank == PyStr(<<>>)

\* str(x)
Str(x) == IF x.t = "None" THEN <<"N", "o", "n", "e">> ELSE x.v

\* `x or ""` for a value that is a string or None
OrEmpty(x) == IF x.t = "None" THEN Blank ELSE x

Whitespace == {" ", "\n", "\r"}

RECURSIVE LStrip(_)
LStrip(chars) ==
    IF chars # <<>> /\ Head(chars) \in Whitespace THEN LStrip(Tail(chars)) ELSE chars

RECURSIVE RStrip(_)
RStrip(chars) ==
    IF chars # <<>> /\ chars[Len(chars)] \in Whitespace
    THEN RStrip(SubSeq(chars, 1, Len(chars) - 1)) ELSE chars

\* s.strip()
Strip(chars) == RStrip(LStrip(chars))

\* s.replace("\r", " ").replace("\n", " ")
ReplaceBreaks(chars) ==
    [k \in DOMAIN chars |-> IF chars[k] \in {"\r", "\n"} THEN " " ELSE chars[k]]

\* clean_text(v)
clean_text(x) == IF x.t = "str" THEN PyStr(Strip(ReplaceBreaks(x.v))) ELSE x

\* a row is a dict: a sequence of <<column, value>> entries in insertion order
Keys(row) == {row[k][1] : k \in DOMAIN row}
Get(row, col) ==
    IF col \in Keys(row)
    THEN row[CHOOSE k \in DOMAIN row : row[k][1] = col][2]
    ELSE NaN

----------------------------------------------------------------------------
(* pd.DataFrame(rows) and df.drop_duplicates() *)

RECURSIVE FrameColumns(_, _)
\* the columns of DataFrame(rows): the keys of the dicts in order of first
\* appearance
FrameColumns(rows, acc) ==
    IF rows = <<>> THEN acc
    ELSE LET row == Head(rows)
             new == SelectSeq([k \in DOMAIN row |-> row[k][1]],
                              LAMBDA c : \A j \in DOMAIN acc : acc[j] # c)
         IN  FrameColumns(Tail(rows), acc \o new)

\* the cells of one dict under the frame's columns: values are aligned by
\* column name, never by position
RowCellsBroken(row, columns) ==
    [k \in DOMAIN columns |-> IF k \in DOMAIN row THEN row[k][2] ELSE NaN]
RowCells(row, columns) == [k \in DOMAIN columns |-> Get(row, columns[k])]

\* df = pd.DataFrame(rows)
DataFrame(rows) ==
    LET columns == FrameColumns(rows, <<>>) IN
    [columns |-> columns,
     index |-> [i \in DOMAIN rows |-> i],
     cells |-> [i \in DOMAIN rows |-> RowCells(rows[i], columns)]]

\* df.drop_duplicates(): keep='first', all columns compared
DropDuplicates(df) ==
    LET keep == {i \in DOMAIN df.cells : \A j \in 1..(i - 1) : df.cells[j] # df.cells[i]}
        Pick(seq) == SelectSeq([i \in DOMAIN seq |-> <<i, seq[i]>>], LAMBDA e : e[1] \in keep)
        index == Pick(df.index)
        cells == Pick(df.cells)
    IN  [columns |-> df.columns,
         index |-> [k \in DOMAIN index |-> index[k][2]],
         cells |-> [k \in DOMAIN cells |-> cells[k][2]]]

DedupColumns == {"A", "B"}
DedupValues == {PyStr(<<"x">>), PyStr(<<"y">>)}

\* the dicts over the two columns, in either insertion order
DedupRow ==
    {<<<<c1, v1>>, <<c2, v2>>>> : c1 \in DedupColumns, c2 \in DedupColumns,
                                  v1 \in DedupValues, v2 \in DedupValues} \
    {<<<<c, v1>>, <<c, v2>>>> : c \in DedupColumns, v1 \in DedupValues, v2 \in DedupValues}

InitDedup ==
    /\ \E n \in 1..MaxRows : ddRows \in [1..n -> DedupRow]
    /\ ddFrame = NoFrame
    /\ ddPasses = 0
    /\ ddFirst = NoFrame
    /\ IdleButDd

\* df = pd.DataFrame(rows)
DdBuild ==
    /\ ddFrame = NoFrame
    /\ ddFrame' = DataFrame(ddRows)
    /\ UNCHANGED <<ddRows, ddPasses, ddFirst, othersDd>>

\* df = df.drop_duplicates()
DdDrop ==
    /\ ddFrame # NoFrame
    /\ ddPasses < MaxPasses
    /\ ddFrame' = DropDuplicates(ddFrame)
    /\ ddPasses' = ddPasses + 1
    /\ ddFirst' = IF ddPasses = 0 THEN ddFrame' ELSE ddFirst
    /\ UNCHANGED <<ddRows, othersDd>>

NextDedup == DdBuild \/ DdDrop

SpecDedup == InitDedup /\ [][NextDedup]_vars

----------------------------------------------------------------------------
(* Properties of the de-duplication step (checked under SpecDedup) *)

\* two dicts hold the same value for every column, whatever their entry order
SameValues(r1, r2) ==
    /\ Keys(r1) = Keys(r2)
    /\ \A c \in Keys(r1) : Get(r1, c) = Get(r2, c)

Kept(df) == {df.index[k] : k \in DOMAIN df.index}

\* C10: a second pass of the de-duplication step changes nothing, and the
\* first pass drops exactly the rows that repeat an earlier row in every
\* column value, whatever the order in which the rows' columns were produced.
C10_DedupIdempotent ==
    /\ ddPasses >= 2 => ddFrame = ddFirst
    /\ ddPasses >= 1 =>
          /\ Kept(ddFirst) = {i \in DOMAIN ddRows :
                                 \A j \in 1..(i - 1) : ~SameValues(ddRows[j], ddRows[i])}
          /\ \A k \in DOMAIN ddFirst.cells :
                \A c \in DOMAIN ddFirst.columns :
                   ddFirst.cells[k][c] = Get(ddRows[ddFirst.index[k]], ddFirst.columns[c])

\* C10 witness: three rows, the third equal to the first but with its columns
\* produced in the other order; two passes were made and the third row is gone
C10_Witness ==
    /\ ddPasses = 2
    /\ Len(ddRows) = 3
    /\ ddRows[1] = <<<<"A", PyStr(<<"x">>)>>, <<"B", PyStr(<<"y">>)>>>>
    /\ ddRows[2] = <<<<"A", PyStr(<<"y">>)>>, <<"B", PyStr(<<"y">>)>>>>
    /\ ddRows[3] = <<<<"B", PyStr(<<"y">>)>>, <<"A", PyStr(<<"x">>)>>>>
    /\ Kept(ddFrame) = {1, 2}

----------------------------------------------------------------------------
(* main_opportunity: invoice matching and row fan-out (opportunity.py) *)

Digits == <<"1", "2", "3", "4", "5", "6", "7", "8", "9">>

\* the Product collection: PRODUCT_ID "1", "2", ...
ProductIds == {<<Digits[i]>> : i \in 1..MaxProducts}
Number(pid) == CHOOSE i \in 1..MaxProducts : <<Digits[i]>> = pid

\* product_codes: PRODUCT_ID -> PRODUCT_CODE or PRODUCT_SKU or ""
\* (products 1, 4, ... carry SKU "a", products 2, 5, ... SKU "b", the others none)
ProductCode(pid) ==
    IF Number(pid) % 3 = 1 THEN <<"a">> ELSE IF Number(pid) % 3 = 2 THEN <<"b">> ELSE <<>>

\* products_family: PRODUCT_ID -> PRODUCT_FAMILY (odd products have one)
ProductFamily(pid) == IF Number(pid) % 2 = 1 THEN PyStr(<<"F", "\n">>) ELSE Blank

\* the opportunity under study and a second one without products
Opp1 == [OPPORTUNITY_ID |-> PyInt(<<"7">>), OPPORTUNITY_NAME |-> PyStr(<<"n", " ">>)]
Opp2 == [OPPORTUNITY_ID |-> PyInt(<<"8">>), OPPORTUNITY_NAME |-> PyNone]

\* the lists without repetition over a set: what list(set) can produce
Perms(S) ==
    {f \in [1..Cardinality(S) -> S] : \A i, j \in 1..Cardinality(S) : i # j => f[i] # f[j]}

\* the Invoice_History__c records: CUSTOMFIELDS with item, number and PO; two
\* records with the same pair under different items, two whose PO differs by
\* trailing white space only, and one with another number
InvoiceRecords ==
    {[CUSTOMFIELDS |-> <<<<"Invoiced_Item__c", PyStr(e[1])>>,
                         <<"Invoice_Num__c", PyStr(e[2])>>,
                         <<"PO_Number__c", PyStr(e[3])>>>>] :
        e \in {<<<<"a">>, <<"5">>, <<"9">>>>,
               <<<<"b", " ">>, <<"5">>, <<"9">>>>,
               <<<<"b", " ">>, <<"5">>, <<"9", " ">>>>,
               <<<<"a">>, <<"6">>, <<"9">>>>}}

\* cf = {c["FIELD_NAME"]: c.get("FIELD_VALUE") for c in rec.get("CUSTOMFIELDS", [])}
CustomFields(rec) ==
    SelectSeq([k \in DOMAIN rec.CUSTOMFIELDS |-> <<k, rec.CUSTOMFIELDS[k]>>],
              LAMBDA e : \A j \in DOMAIN rec.CUSTOMFIELDS :
                            j > e[1] => rec.CUSTOMFIELDS[j][1] # e[2][1])

\* cf.get(name, default)
CfGet(rec, name, default) ==
    LET cf == CustomFields(rec)
        hit == {k \in DOMAIN cf : cf[k][2][1] = name}
    IN  IF hit = {} THEN default ELSE cf[CHOOSE k \in hit : TRUE][2][2]

\* sku = str(cf.get("Invoiced_Item__c") or "").strip()
InvoiceSku(inv) == Strip(Str(OrEmpty(CfGet(inv, "Invoiced_Item__c", PyNone))))

\* row = {"Invoice_Num__c": cf.get("Invoice_Num__c", ""), "PO_Number__c": ...}
InvoiceRow(inv) ==
    [Invoice_Num__c |-> CfGet(inv, "Invoice_Num__c", Blank),
     PO_Number__c |-> CfGet(inv, "PO_Number__c", Blank)]

\* build_invoice_lookup_by_sku: SKU -> invoice rows, records without SKU skipped
BuildInvoiceLookup(invoices) ==
    LET skus == {InvoiceSku(invoices[k]) : k \in DOMAIN invoices} \ {<<>>} IN
    [sku \in skus |->
        LET mine == SelectSeq(invoices, LAMBDA inv : InvoiceSku(inv) = sku)
        IN  [k \in DOMAIN mine |-> InvoiceRow(mine[k])]]

RECURSIVE MatchInvoices(_, _)
\* for sku in product_skus: sku = str(sku).strip()
\*     if sku in invoice_lookup: invoice_list.extend(invoice_lookup.get(sku, []))
MatchInvoices(skus, lookup) ==
    IF skus = <<>> THEN <<>>
    ELSE LET sku == Strip(Head(skus)) IN
         (IF sku \in DOMAIN lookup THEN lookup[sku] ELSE <<>>)
            \o MatchInvoices(Tail(skus), lookup)

\* the seen_pairs loop: the first invoice of every (number, PO) pair
UniqueInvoicesBroken(list) == list
UniqueInvoices(list) ==
    LET first == {k \in DOMAIN list :
                     \A j \in 1..(k - 1) :
                        <<list[j].Invoice_Num__c, list[j].PO_Number__c>>
                           # <<list[k].Invoice_Num__c, list[k].PO_Number__c>>}
        picked == SelectSeq([k \in DOMAIN list |-> <<k, list[k]>>], LAMBDA e : e[1] \in first)
    IN  [k \in DOMAIN picked |-> picked[k][2]]

\* base_row(pid, invoice_num, po_number); of the columns that depend on the
\* opportunity alone ("Opportunity Name" through "GAP Current State") the
\* model keeps the first two
base_row(opp, pid, invoice_num, po_number) ==
    <<<<"Opportunity ID", PyStr(Str(opp.OPPORTUNITY_ID))>>,
      <<"Opportunity Name", clean_text(opp.OPPORTUNITY_NAME)>>,
      <<"Product Family", IF pid # <<>> THEN clean_text(ProductFamily(pid)) ELSE Blank>>,
      <<"Product ID", PyStr(pid)>>,
      <<"Invoice Number", clean_text(invoice_num)>>,
      <<"Purchase Order", clean_text(po_number)>>>>

\* the rows of one invoice (or of no invoice): one per product, or a single
\* row without product when the opportunity has none
ProductRowsBroken(opp, product_ids, inv_num, po_num) ==
    [k \in DOMAIN product_ids |-> base_row(opp, product_ids[k], inv_num, po_num)]
ProductRows(opp, product_ids, inv_num, po_num) ==
    IF product_ids # <<>>
    THEN [k \in DOMAIN product_ids |-> base_row(opp, product_ids[k], inv_num, po_num)]
    ELSE <<base_row(opp, <<>>, inv_num, po_num)>>

RECURSIVE InvoiceRows(_, _, _)
InvoiceRows(opp, product_ids, invoice_list) ==
    IF invoice_list = <<>> THEN <<>>
    ELSE ProductRows(opp, product_ids, Head(invoice_list).Invoice_Num__c,
                     Head(invoice_list).PO_Number__c)
            \o InvoiceRows(opp, product_ids, Tail(invoice_list))

\* the "Build rows" block of the loop body
OppRowsBroken(opp, product_ids, invoice_list) ==
    ProductRows(opp, product_ids, Blank, Blank)
OppRows(opp, product_ids, invoice_list) ==
    IF invoice_list # <<>>
    THEN InvoiceRows(opp, product_ids, invoice_list)
    ELSE ProductRows(opp, product_ids, Blank, Blank)

\* opp_product_ids_map.get(opp_id_str, []) and opp_product_skus_map.get(...):
\* only the first opportunity has line items
ProductIdsOf(k) == IF k = 1 THEN opIn.pids ELSE <<>>
ProductSkusOf(k) == IF k = 1 THEN opIn.skus ELSE <<>>

InitOpp ==
    /\ \E ps \in SUBSET ProductIds, n \in 0..MaxInvoices :
          \E pids \in Perms(ps), invoices \in [1..n -> InvoiceRecords] :
             \E skus \in Perms({ProductCode(p) : p \in ps} \ {<<>>}) :
                opIn = [opps |-> <<Opp1, Opp2>>, pids |-> pids, skus |-> skus,
                        invoices |-> invoices]
    /\ opPc = "lookups"
    /\ opLookup = <<>>
    /\ opIdx = 0
    /\ opMatched = <<>>
    /\ opRows = <<>>
    /\ opFrame = NoFrame
    /\ IdleButOp

\* invoice_lookup = build_invoice_lookup_by_sku()
OpLookups ==
    /\ opPc = "lookups"
    /\ opLookup' = BuildInvoiceLookup(opIn.invoices)
    /\ opPc' = "rows"
    /\ UNCHANGED <<opIn, opIdx, opMatched, opRows, opFrame, othersOp>>

\* one iteration of `for opp in opportunities:`
OpRow ==
    /\ opPc = "rows"
    /\ opIdx < Len(opIn.opps)
    /\ LET k == opIdx + 1
           invoice_list == UniqueInvoices(MatchInvoices(ProductSkusOf(k), opLookup))
       IN  /\ opMatched' = Append(opMatched, invoice_list)
           /\ opRows' = opRows \o OppRows(opIn.opps[k], ProductIdsOf(k), invoice_list)
           /\ opIdx' = k
    /\ UNCHANGED <<opIn, opPc, opLookup, opFrame, othersOp>>

\* if rows: df = pd.DataFrame(rows); df = df.drop_duplicates(); df.to_excel(...)
OpExport ==
    /\ opPc = "rows"
    /\ opIdx = Len(opIn.opps)
    /\ opFrame' = IF opRows # <<>> THEN DropDuplicates(DataFrame(opRows)) ELSE NoFrame
    /\ opPc' = "done"
    /\ UNCHANGED <<opIn, opLookup, opIdx, opMatched, opRows, othersOp>>

NextOpp == OpLookups \/ OpRow \/ OpExport

SpecOpp == InitOpp /\ [][NextOpp]_vars

----------------------------------------------------------------------------
(* Properties of the opportunity rows (checked under SpecOpp) *)

\* the rows built for the opportunity under study
Opp1Rows == SelectSeq(opRows, LAMBDA r : Get(r, "Opportunity ID") = PyStr(<<"7">>))

\* its rows in the frame handed to the writer
Opp1Written ==
    {k \in DOMAIN opFrame.cells :
        \E c \in DOMAIN opFrame.columns :
           opFrame.columns[c] = "Opportunity ID" /\ opFrame.cells[k][c] = PyStr(<<"7">>)}

ProductColumns == {"Product ID", "Product Family"}
AllColumns == {"Opportunity ID", "Opportunity Name", "Product Family", "Product ID",
               "Invoice Number", "Purchase Order"}

\* C9: an opportunity with N >= 1 linked products and no matched invoice
\* yields exactly N rows, one per product, equal in every column but Product
\* ID and Product Family (before and after de-duplication); an opportunity
\* without linked products yields exactly one row whose Product ID, Product
\* Family, Invoice Number and Purchase Order are blank.
C9_FanOut ==
    opIdx >= 1 =>
       LET n == Len(opIn.pids)
           rows == Opp1Rows
       IN
       /\ (n >= 1 /\ opMatched[1] = <<>>) =>
             /\ Len(rows) = n
             /\ \A p \in {opIn.pids[k] : k \in DOMAIN opIn.pids} :
                   Cardinality({k \in DOMAIN rows :
                                   Get(rows[k], "Product ID") = PyStr(p)}) = 1
             /\ \A i \in DOMAIN rows :
                   /\ Keys(rows[i]) = AllColumns
                   /\ \A c \in AllColumns \ ProductColumns :
                         Get(rows[i], c) = Get(rows[1], c)
             /\ opPc = "done" => Cardinality(Opp1Written) = n
       /\ n = 0 =>
             /\ Len(rows) = 1
             /\ \A c \in ProductColumns \cup {"Invoice Number", "Purchase Order"} :
                   Get(rows[1], c) = Blank
             /\ opPc = "done" => Cardinality(Opp1Written) = 1

\* C9 witness: two linked products, invoices on file but none for their
\* SKUs, two rows written
C9_Witness ==
    /\ opPc = "done"
    /\ Len(opIn.pids) = 2
    /\ opIn.invoices # <<>>
    /\ opMatched[1] = <<>>
    /\ Cardinality(Opp1Written) = 2

\* C9 witness of the other case: no linked product, one blank row
C9_WitnessNoProduct ==
    /\ opPc = "done"
    /\ Len(opIn.pids) = 0
    /\ opIn.invoices # <<>>
    /\ Len(Opp1Rows) = 1

\* the (product, invoice) combinations of the opportunity under study: its
\* linked products, or one blank product; its matched pairs, or one blank pair
Opp1Products ==
    IF opIn.pids = <<>> THEN {<<>>} ELSE {opIn.pids[k] : k \in DOMAIN opIn.pids}
Opp1Pairs ==
    IF opMatched[1] = <<>> THEN {0} ELSE DOMAIN opMatched[1]
PairCells(u) ==
    IF u = 0 THEN <<Blank, Blank>>
    ELSE <<clean_text(opMatched[1][u].Invoice_Num__c),
           clean_text(opMatched[1][u].PO_Number__c)>>
Max(a, b) == IF a >= b THEN a ELSE b

\* C21: before de-duplication an opportunity with P distinct linked products
\* and U distinct matched (invoice number, PO number) pairs has exactly
\* max(1,P) * max(1,U) rows, one for every (product, pair) combination; the
\* product columns are blank when P = 0, the invoice columns when U = 0.
C21_FanOutProduct ==
    opIdx >= 1 =>
       LET P == Len(opIn.pids)
           U == Len(opMatched[1])
           rows == Opp1Rows
           cells == [k \in DOMAIN rows |->
                       [product |-> Get(rows[k], "Product ID"),
                        family |-> Get(rows[k], "Product Family"),
                        pair |-> <<Get(rows[k], "Invoice Number"),
                                   Get(rows[k], "Purchase Order")>>]]
           pairs == [u \in Opp1Pairs |-> PairCells(u)]
       IN  /\ Len(rows) = Max(1, P) * Max(1, U)
           /\ \A p \in Opp1Products, u \in Opp1Pairs :
                 Cardinality({k \in DOMAIN cells :
                                 cells[k].product = PyStr(p) /\ cells[k].pair = pairs[u]})
                    = Cardinality({v \in Opp1Pairs : pairs[v] = pairs[u]})
           /\ P = 0 => \A k \in DOMAIN cells :
                          cells[k].product = Blank /\ cells[k].family = Blank
           /\ U = 0 => \A k \in DOMAIN cells : cells[k].pair = <<Blank, Blank>>

\* C21 witness: two linked products and two matched pairs, four rows
C21_Witness ==
    /\ opIdx >= 1
    /\ Len(opIn.pids) = 2
    /\ Len(opMatched[1]) = 2
    /\ Len(Opp1Rows) = 4

\* C21 witness with a single product: one linked product and two matched
\* pairs, two rows
C21_WitnessOneProduct ==
    /\ opIdx >= 1
    /\ Len(opIn.pids) = 1
    /\ Len(opMatched[1]) = 2
    /\ Len(Opp1Rows) = 2

\* the (invoice number, PO number) pair of a lookup row
PairOf(row) == <<row.Invoice_Num__c, row.PO_Number__c>>

\* the invoice records filed under one of the SKUs of the opportunity under
\* study
Opp1Invoices ==
    {k \in DOMAIN opIn.invoices :
        \E s \in DOMAIN opIn.skus :
           /\ InvoiceSku(opIn.invoices[k]) # <<>>
           /\ InvoiceSku(opIn.invoices[k]) = Strip(opIn.skus[s])}

\* C22: the matched invoices of an opportunity hold every (invoice number,
\* PO number) pair found under any of its SKUs, and each pair exactly once:
\* two records with the same pair, under the same or different SKUs, give one
\* fan-out entry.
C22_PairsOnce ==
    opIdx >= 1 =>
       LET m == opMatched[1] IN
       /\ {PairOf(m[k]) : k \in DOMAIN m}
             = {<<CfGet(opIn.invoices[k], "Invoice_Num__c", Blank),
                  CfGet(opIn.invoices[k], "PO_Number__c", Blank)>> : k \in Opp1Invoices}
       /\ \A i, j \in DOMAIN m : i # j => PairOf(m[i]) # PairOf(m[j])

\* C22 witness: two records with the same pair under the two SKUs of the
\* opportunity, one matched invoice
C22_Witness ==
    /\ opIdx >= 1
    /\ Cardinality(Opp1Invoices) = 2
    /\ \E i, j \in Opp1Invoices :
          InvoiceSku(opIn.invoices[i]) # InvoiceSku(opIn.invoices[j])
    /\ Len(opMatched[1]) = 1

\* C22 witness under one SKU: two records with the same pair and the same
\* SKU, one matched invoice
C22_WitnessSameSku ==
    /\ opIdx >= 1
    /\ Cardinality(Opp1Invoices) = 2
    /\ \A i, j \in Opp1Invoices :
          InvoiceSku(opIn.invoices[i]) = InvoiceSku(opIn.invoices[j])
    /\ Len(opMatched[1]) = 1

----------------------------------------------------------------------------
(* Lookup tables built through a worker pool: prefetch_related_data         *)
(* (quote.py), parallel_lookups (task.py), build_lookups (opportunity.py)   *)

LookupKinds ==
    {"quote.opportunity_cache", "task.category_cache", "task.user_cache",
     "opportunity.organisations"}

\* the tables filled by one fetch per ID; the other is built from one bulk fetch
PerIdKinds == LookupKinds \ {"opportunity.organisations"}

\* the tables the workers write themselves (module-level caches of task.py)
WorkerWritten == {"task.category_cache", "task.user_cache"}

\* the tables that are module globals; the others are locals of the export
ModuleLevel == {"task.category_cache", "task.user_cache"}

\* an ID as it arrives in the JSON of a primary record
WireIds == {PyInt(<<"7">>), PyStr(<<"7">>), PyInt(<<"8">>), PyNone}

\* bool(x) of an ID value
IsTrue(x) == x.t # "None" /\ x.v # <<>> /\ ~(x.t = "int" /\ x.v = <<"0">>)

\* the name the endpoint holds for an ID
ServerName(idchars) == IF idchars = <<"7">> THEN <<"A", "\n", "B">> ELSE <<"C", " ">>

\* the Organisations collection as fetch_all_paged returns it
Organisations ==
    <<[ORGANISATION_ID |-> PyInt(<<"7">>), ORGANISATION_NAME |-> PyStr(ServerName(<<"7">>))],
      [ORGANISATION_ID |-> PyInt(<<"8">>), ORGANISATION_NAME |-> PyStr(ServerName(<<"8">>))]>>

\* the jobs submitted to the pool: one per collected ID, or the one bulk fetch
Jobs(kind, records) ==
    IF kind \in PerIdKinds
    THEN {records[k].ref : k \in {i \in DOMAIN records : IsTrue(records[i].ref)}}
    ELSE {"Organisations"}

\* the key an entry is stored under
WriteKey(kind, id) ==
    IF kind \in {"quote.opportunity_cache", "task.category_cache"} THEN id
    ELSE PyStr(Str(id))

\* the key a row-building read uses
ReadKey(kind, rec) ==
    CASE kind \in {"quote.opportunity_cache", "task.category_cache"} -> rec.ref
      [] kind = "task.user_cache" -> PyStr(Str(rec.ref))
      [] kind = "opportunity.organisations" ->
            PyStr(Str(IF IsTrue(rec.ref) THEN rec.ref ELSE Blank))

\* the value a successful fetch stores
FetchedValue(kind, id) ==
    IF kind = "task.user_cache"
    THEN PyStr(Strip(Str(id) \o <<";">> \o ServerName(Str(id)) \o <<" ">>))
    ELSE PyStr(ServerName(Str(id)))

\* dict.get(key, default)
DictGet(table, key, default) == IF key \in DOMAIN table THEN table[key] ELSE default

\* table[key] = value
DictSet(table, key, value) ==
    [k \in DOMAIN table \cup {key} |-> IF k = key THEN value ELSE table[k]]

\* the dict comprehension of build_lookups over the fetched collection
BulkTable(collection) ==
    [key \in {PyStr(Str(collection[k].ORGANISATION_ID)) : k \in DOMAIN collection} |->
        collection[CHOOSE k \in DOMAIN collection :
                      PyStr(Str(collection[k].ORGANISATION_ID)) = key
                      /\ \A j \in DOMAIN collection :
                            PyStr(Str(collection[j].ORGANISATION_ID)) = key => j <= k
                  ].ORGANISATION_NAME]

\* leaving the `with ThreadPoolExecutor` block: every future has finished
\* and the as_completed loop has handed each one to the main thread
PoolDrainedBroken == \E j \in DOMAIN lkFut : lkFut[j].yielded
PoolDrained == \A j \in DOMAIN lkFut : lkFut[j].state = "done" /\ lkFut[j].yielded

\* the row of one primary record
LookupRow(kind, rec, table) ==
    CASE kind = "quote.opportunity_cache" ->
            <<<<"Record ID", rec.key>>,
              <<"Opportunity Name", DictGet(table, ReadKey(kind, rec), Blank)>>>>
      [] kind = "task.category_cache" ->
            <<<<"TaskID", rec.key>>,
              <<"Category", DictGet(table, ReadKey(kind, rec), Blank)>>>>
      [] kind = "task.user_cache" ->
            <<<<"TaskID", rec.key>>,
              <<"Owner Name", DictGet(table, ReadKey(kind, rec), Blank)>>>>
      [] kind = "opportunity.organisations" ->
            <<<<"Opportunity ID", PyStr(Str(rec.key))>>,
              <<"Organization Name",
                clean_text(DictGet(table, ReadKey(kind, rec), Blank))>>>>

InitLookup ==
    /\ lkKind \in LookupKinds
    /\ \E n \in 1..MaxRecords :
          \E refs \in [1..n -> WireIds] :
             lkIn = [k \in 1..n |-> [key |-> PyInt(<<Digits[k]>>), ref |-> refs[k]]]
    /\ lkPc = "collect"
    /\ lkFut = <<>>
    /\ lkTable = <<>>
    /\ lkRows = <<>>
    /\ lkRun = 1
    /\ IdleButLk

\* collect the IDs and submit one job per ID (or the bulk fetch)
LkSubmit ==
    /\ lkPc = "collect"
    /\ lkFut' = [j \in Jobs(lkKind, lkIn) |->
                    [state |-> "submitted", out |-> "none", yielded |-> FALSE]]
    /\ lkPc' = "pool"
    /\ UNCHANGED <<lkKind, lkRun, lkIn, lkTable, lkRows, othersLk>>

\* a worker picks the job up; fetch_category, fetch_user skip a cached ID
LkStart(j) ==
    /\ lkPc = "pool"
    /\ lkFut[j].state = "submitted"
    /\ lkFut' = [lkFut EXCEPT ![j].state =
                    IF lkKind \in WorkerWritten /\ WriteKey(lkKind, j) \in DOMAIN lkTable
                    THEN "done" ELSE "running"]
    /\ UNCHANGED <<lkKind, lkRun, lkIn, lkPc, lkTable, lkRows, othersLk>>

\* the worker's safe_get returns: a response ("ok") or None ("fail")
LkFinish(j) ==
    /\ lkPc = "pool"
    /\ lkFut[j].state = "running"
    /\ \E o \in {"ok", "fail"} :
          /\ lkFut' = [lkFut EXCEPT ![j].state = "done", ![j].out = o]
          /\ lkTable' = IF lkKind \in WorkerWritten /\ o = "ok"
                        THEN DictSet(lkTable, WriteKey(lkKind, j), FetchedValue(lkKind, j))
                        ELSE lkTable
    /\ UNCHANGED <<lkKind, lkRun, lkIn, lkPc, lkRows, othersLk>>

\* as_completed hands a finished future to the main thread, which merges the
\* result in prefetch_related_data and does nothing in parallel_lookups
LkYield(j) ==
    /\ lkPc = "pool"
    /\ lkFut[j].state = "done"
    /\ ~lkFut[j].yielded
    /\ lkFut' = [lkFut EXCEPT ![j].yielded = TRUE]
    /\ lkTable' = IF lkKind = "quote.opportunity_cache"
                  THEN DictSet(lkTable, WriteKey(lkKind, j),
                               IF lkFut[j].out = "ok" THEN FetchedValue(lkKind, j) ELSE Blank)
                  ELSE lkTable
    /\ UNCHANGED <<lkKind, lkRun, lkIn, lkPc, lkRows, othersLk>>

\* the with block is left; build_lookups turns the fetched list into the dict
LkDrain ==
    /\ lkPc = "pool"
    /\ PoolDrained
    /\ lkTable' = IF lkKind = "opportunity.organisations"
                  THEN BulkTable(IF lkFut["Organisations"].out = "ok"
                                 THEN Organisations ELSE <<>>)
                  ELSE lkTable
    /\ lkPc' = "rows"
    /\ UNCHANGED <<lkKind, lkRun, lkIn, lkFut, lkRows, othersLk>>

\* one iteration of the row loop
LkRow ==
    /\ lkPc = "rows"
    /\ LET k == Len(lkRows) + 1 IN
          /\ lkRows' = Append(lkRows, LookupRow(lkKind, lkIn[k], lkTable))
          /\ lkPc' = IF k = Len(lkIn) THEN "done" ELSE "rows"
    /\ UNCHANGED <<lkKind, lkRun, lkIn, lkFut, lkTable, othersLk>>

\* the export function is called again in the same worker process: its locals
\* are new, the module-level caches are what the earlier run left
LkRerun ==
    /\ lkPc = "done"
    /\ lkRun < MaxRuns
    /\ lkRun' = lkRun + 1
    /\ lkPc' = "collect"
    /\ lkFut' = <<>>
    /\ lkRows' = <<>>
    /\ lkTable' = IF lkKind \in ModuleLevel THEN lkTable ELSE <<>>
    /\ UNCHANGED <<lkKind, lkIn, othersLk>>

NextLookup ==
    \/ LkSubmit
    \/ \E j \in DOMAIN lkFut : LkStart(j)
    \/ \E j \in DOMAIN lkFut : LkFinish(j)
    \/ \E j \in DOMAIN lkFut : LkYield(j)
    \/ LkDrain
    \/ LkRow
    \/ LkRerun

SpecLookup == InitLookup /\ [][NextLookup]_vars

----------------------------------------------------------------------------
(* Properties of the lookup tables (checked under SpecLookup) *)

\* the value column of a lookup row
ValueColumn ==
    CASE lkKind = "quote.opportunity_cache" -> "Opportunity Name"
      [] lkKind = "task.category_cache" -> "Category"
      [] lkKind = "task.user_cache" -> "Owner Name"
      [] OTHER -> "Organization Name"

\* C11: the table is keyed by strings, and two primary records whose IDs
\* have the same string form (the number 7 and the string "7") read the same
\* entry, hence get the same value.
C11_IdAsString ==
    lkPc = "done" =>
       /\ \A key \in DOMAIN lkTable : key.t = "str"
       /\ \A i, j \in DOMAIN lkIn :
             (IsTrue(lkIn[i].ref) /\ Str(lkIn[i].ref) = Str(lkIn[j].ref)) =>
                Get(lkRows[i], ValueColumn) = Get(lkRows[j], ValueColumn)

\* a value that has passed the text-cleaning rule
IsClean(x) ==
    x.t = "str" =>
       /\ \A k \in DOMAIN x.v : x.v[k] \notin {"\r", "\n"}
       /\ x.v # <<>> => (x.v[1] \notin Whitespace /\ x.v[Len(x.v)] \notin Whitespace)

\* C13 (as claimed): every string-valued cell of every row built is free of
\* carriage returns and newlines and has no leading or trailing white space.
C13_TextCleaned ==
    \A k \in DOMAIN lkRows : \A e \in DOMAIN lkRows[k] : IsClean(lkRows[k][e][2])

\* every submitted fetch has finished, was handed to the main thread, and its
\* result is in the table
LookupsComplete ==
    /\ DOMAIN lkFut = Jobs(lkKind, lkIn)
    /\ \A j \in DOMAIN lkFut :
          /\ lkFut[j].state = "done"
          /\ lkFut[j].yielded
          /\ (lkFut[j].out = "ok" /\ lkKind \in PerIdKinds) =>
                DictGet(lkTable, WriteKey(lkKind, j), PyNone) = FetchedValue(lkKind, j)
          /\ (lkFut[j].out = "ok" /\ lkKind \notin PerIdKinds) =>
                lkTable = BulkTable(Organisations)

\* C14: once the first row has been built (and from the moment the row loop
\* is entered) every fetch of the pool has completed and been merged, and
\* the table does not change while rows are built.
C14_NoPartialTable ==
    /\ [](lkPc \in {"rows", "done"} \/ lkRows # <<>> => LookupsComplete)
    /\ [][lkPc = "rows" => lkTable' = lkTable]_vars

\* C14 witness: two user fetches succeeded in the pool and both rows found
\* their entry
C14_Witness ==
    /\ lkPc = "done"
    /\ lkKind = "task.user_cache"
    /\ Cardinality(DOMAIN lkFut) = 2
    /\ \A j \in DOMAIN lkFut : lkFut[j].out = "ok"
    /\ Len(lkRows) = 2
    /\ \A k \in DOMAIN lkRows : Get(lkRows[k], "Owner Name") # Blank

\* pool task j completes in this step
Completes(j) == lkFut[j].state = "running" /\ lkFut'[j].state = "done"

\* C24 (as claimed): a pool task hands its result back and the submitting
\* thread merges it; no pool task writes to a table while another task of the
\* pool, which reads or writes the same table, is running.
C24_NoSharedState ==
    [][\A j \in DOMAIN lkFut :
          (Completes(j) /\ lkTable' # lkTable) =>
             \A k \in DOMAIN lkFut \ {j} : lkFut[k].state # "running"]_vars

\* the same for the tables the submitting thread fills
C24_MainThreadMerges ==
    [][lkKind \notin WorkerWritten =>
          \A j \in DOMAIN lkFut : Completes(j) => lkTable' = lkTable]_vars

\* row k of the running export holds a lookup value that a fetch of this run
\* delivered (lkFut holds the futures of the running export only)
FetchedThisRun(k) ==
    IF lkKind \in PerIdKinds
    THEN \E j \in DOMAIN lkFut :
            /\ lkFut[j].out = "ok"
            /\ WriteKey(lkKind, j) = ReadKey(lkKind, lkIn[k])
    ELSE \A j \in DOMAIN lkFut : lkFut[j].out = "ok"

\* C25 (as claimed): over any sequence of runs of an export in one process,
\* every lookup value that a row carries was fetched during the run that
\* builds the row, never during an earlier one.
C25_RebuiltPerRun ==
    \A k \in DOMAIN lkRows :
       Get(lkRows[k], ValueColumn) # Blank => FetchedThisRun(k)

\* the same for the tables that are locals of their export function
C25_LocalTablesRebuilt ==
    lkKind \notin ModuleLevel => C25_RebuiltPerRun

----------------------------------------------------------------------------
(* format_date_only (organisation.py, task.py) *)

DecDigits == <<"0", "1", "2", "3", "4", "5", "6", "7", "8", "9">>
IsDigit(c) == \E i \in DOMAIN DecDigits : DecDigits[i] = c
DigitValue(c) == (CHOOSE i \in DOMAIN DecDigits : DecDigits[i] = c) - 1

RECURSIVE ToInt(_)
\* int(chars) of a run of digits
ToInt(chars) ==
    IF chars = <<>> THEN 0
    ELSE 10 * ToInt(SubSeq(chars, 1, Len(chars) - 1)) + DigitValue(chars[Len(chars)])

RECURSIVE ToDigits(_, _)
\* the decimal digits of n, zero-padded to `width`
ToDigits(n, width) ==
    IF width <= 1 /\ n < 10 THEN <<DecDigits[n + 1]>>
    ELSE ToDigits(n \div 10, width - 1) \o <<DecDigits[(n % 10) + 1]>>

RECURSIVE TakeDigits(_, _)
\* the longest run of digits at the head of chars, at most `most` long
TakeDigits(chars, most) ==
    IF most = 0 \/ chars = <<>> \/ ~IsDigit(Head(chars)) THEN <<>>
    ELSE <<Head(chars)>> \o TakeDigits(Tail(chars), most - 1)

RECURSIVE SkipSpace(_)
\* what is left after the white space at the head of chars
SkipSpace(chars) ==
    IF chars # <<>> /\ Head(chars) \in Whitespace THEN SkipSpace(Tail(chars)) ELSE chars

Drop(chars, n) == SubSeq(chars, n + 1, Len(chars))
StartsWith(chars, c) == chars # <<>> /\ Head(chars) = c

IsLeap(year) == year % 4 = 0 /\ (year % 100 # 0 \/ year % 400 = 0)
DaysInMonth(year, month) ==
    IF month = 2 THEN (IF IsLeap(year) THEN 29 ELSE 28)
    ELSE IF month \in {4, 6, 9, 11} THEN 30 ELSE 31

ValueError == [exc |-> "ValueError"]

\* a numeric directive of one or two digits (%m, %d, %H, %M, %S): the digits
\* it consumes, none when the value is outside lo..hi
Field(chars, lo, hi) ==
    LET run == TakeDigits(chars, 2) IN
    IF run # <<>> /\ ToInt(run) \in lo..hi THEN run
    ELSE IF Len(run) = 2 /\ ToInt(<<run[1]>>) \in lo..hi THEN <<run[1]>>
    ELSE <<>>

\* datetime.strptime(date_str, "%Y-%m-%d %H:%M:%S")
strptime(chars) ==
    LET y == TakeDigits(chars, 4)
        r1 == Drop(chars, Len(y))
        m == Field(Drop(r1, 1), 1, 12)
        r2 == Drop(r1, 1 + Len(m))
        d == Field(Drop(r2, 1), 1, 31)
        r3 == Drop(r2, 1 + Len(d))
        r4 == SkipSpace(r3)
        H == Field(r4, 0, 23)
        r5 == Drop(r4, Len(H))
        M == Field(Drop(r5, 1), 0, 59)
        r6 == Drop(r5, 1 + Len(M))
        S == Field(Drop(r6, 1), 0, 61)
        r7 == Drop(r6, 1 + Len(S))
    IN  IF /\ Len(y) = 4 /\ StartsWith(r1, "-")
           /\ m # <<>> /\ StartsWith(r2, "-")
           /\ d # <<>> /\ r4 # r3
           /\ H # <<>> /\ StartsWith(r5, ":")
           /\ M # <<>> /\ StartsWith(r6, ":")
           /\ S # <<>> /\ r7 = <<>>
           \* the datetime constructor
           /\ ToInt(y) >= 1
           /\ ToInt(d) <= DaysInMonth(ToInt(y), ToInt(m))
           /\ ToInt(S) <= 59
        THEN [exc |-> "none", year |-> ToInt(y), month |-> ToInt(m), day |-> ToInt(d)]
        ELSE ValueError

Pad2Broken(n) == ToDigits(n, 1)
\* %m and %d: two digits
Pad2(n) == ToDigits(n, 2)

\* dt.strftime("%m/%d/%Y")
strftime(dt) == Pad2(dt.month) \o <<"/">> \o Pad2(dt.day) \o <<"/">> \o ToDigits(dt.year, 4)

\* format_date_only(date_str) for None and str arguments
format_date_only(date_str) ==
    IF date_str.t = "None" \/ date_str.v = <<>> THEN Blank
    ELSE LET dt == strptime(date_str.v) IN
         IF dt.exc = "ValueError" THEN date_str ELSE PyStr(strftime(dt))

\* the parts the date strings are put together from, each with its value
Years == {[c |-> <<"2", "0", "2", "2">>, n |-> 2022], [c |-> <<"2", "0", "2", "4">>, n |-> 2024],
          [c |-> <<"1", "9", "0", "0">>, n |-> 1900], [c |-> <<"2", "2">>, n |-> 22]}
Months == {[c |-> <<"0", "2">>, n |-> 2], [c |-> <<"0", "9">>, n |-> 9],
           [c |-> <<"1", "3">>, n |-> 13], [c |-> <<"9">>, n |-> 9]}
Days == {[c |-> <<"2", "3">>, n |-> 23], [c |-> <<"2", "9">>, n |-> 29],
         [c |-> <<"3", "1">>, n |-> 31], [c |-> <<"3">>, n |-> 3]}
DateSeparators == {"-", "/"}
Gaps == {<<" ">>, <<" ", " ">>, <<"T">>}
Times == {[c |-> <<"0", "3", ":", "4", "2", ":", "2", "5">>, fields |-> <<3, 42, 25>>],
          [c |-> <<"2", "3", ":", "5", "9", ":", "6", "0">>, fields |-> <<23, 59, 60>>],
          [c |-> <<"2", "4", ":", "0", "0", ":", "0", "0">>, fields |-> <<24, 0, 0>>],
          [c |-> <<"3", ":", "4", ":", "5">>, fields |-> <<3, 4, 5>>],
          [c |-> <<"0", "3", ":", "4", "2">>, fields |-> <<3, 42>>]}
Tails == {<<>>, <<"Z">>}

DateParts == [year : Years, sep : DateSeparators, month : Months, day : Days,
              gap : Gaps, time : Times, tail : Tails]

\* the string the parts spell
Spell(p) ==
    p.year.c \o <<p.sep>> \o p.month.c \o <<p.sep>> \o p.day.c \o p.gap \o p.time.c \o p.tail

InitDate ==
    /\ \/ \E p \in DateParts : dtIn = [value |-> PyStr(Spell(p)), parts |-> <<p>>]
       \/ \E v \in {PyNone, Blank, PyStr(<<"n", "/", "a">>)} : dtIn = [value |-> v, parts |-> <<>>]
    /\ dtPc = "called"
    /\ dtOut = <<>>
    /\ IdleButDt

DtFormat ==
    /\ dtPc = "called"
    /\ dtOut' = format_date_only(dtIn.value)
    /\ dtPc' = "returned"
    /\ UNCHANGED <<dtIn, othersDt>>

NextDate == DtFormat

SpecDate == InitDate /\ [][NextDate]_vars

----------------------------------------------------------------------------
(* Properties of format_date_only (checked under SpecDate) *)

\* the date and time the parts denote exist
DenotesDateTime(p) ==
    /\ Len(p.year.c) = 4 /\ p.year.n >= 1
    /\ p.month.n \in 1..12
    /\ p.day.n \in 1..DaysInMonth(p.year.n, p.month.n)
    /\ Len(p.time.fields) = 3
    /\ p.time.fields[1] \in 0..23 /\ p.time.fields[2] \in 0..59 /\ p.time.fields[3] \in 0..59

\* the string has exactly the form YYYY-MM-DD HH:MM:SS
Canonical(p) ==
    /\ DenotesDateTime(p)
    /\ p.sep = "-" /\ p.gap = <<" ">> /\ p.tail = <<>>
    /\ Len(p.month.c) = 2 /\ Len(p.day.c) = 2 /\ Len(p.time.c) = 8

\* the string is one strptime accepts: single digits and wider gaps are allowed
Parseable(p) ==
    /\ DenotesDateTime(p)
    /\ p.sep = "-" /\ p.tail = <<>>
    /\ \A k \in DOMAIN p.gap : p.gap[k] \in Whitespace

\* C12: a string of the form YYYY-MM-DD HH:MM:SS that denotes a date and time
\* is returned as MM/DD/YYYY with the same month, day and year digits; None
\* and the empty string give the empty string; a string strptime rejects is
\* returned unchanged.
C12_DateFormat ==
    dtPc = "returned" =>
       /\ dtIn.value \in {PyNone, Blank} => dtOut = Blank
       /\ \A k \in DOMAIN dtIn.parts :
             LET p == dtIn.parts[k] IN
             /\ Canonical(p) =>
                   dtOut = PyStr(p.month.c \o <<"/">> \o p.day.c \o <<"/">> \o p.year.c)
             /\ ~Parseable(p) => dtOut = dtIn.value
       /\ dtIn.value = PyStr(<<"n", "/", "a">>) => dtOut = dtIn.value

\* C12 witness: "2024-02-29 03:42:25" came back as "02/29/2024"
C12_Witness ==
    /\ dtPc = "returned"
    /\ dtIn.value = PyStr(<<"2", "0", "2", "4", "-", "0", "2", "-", "2", "9", " ",
                            "0", "3", ":", "4", "2", ":", "2", "5">>)
    /\ dtOut = PyStr(<<"0", "2", "/", "2", "9", "/", "2", "0", "2", "4">>)

\* C12 witness of the other case: "2022-02-29 03:42:25" came back unchanged
C12_WitnessUnchanged ==
    /\ dtPc = "returned"
    /\ dtIn.value = PyStr(<<"2", "0", "2", "2", "-", "0", "2", "-", "2", "9", " ",
                            "0", "3", ":", "4", "2", ":", "2", "5">>)
    /\ dtOut = dtIn.value

----------------------------------------------------------------------------
(* The triggers and the orchestrator: HttpTrigger1/3/4, init_token_once,    *)
(* final, final3, final4, upload_if_file_exists (callable.py), main_drive   *)
(* (one_drive.py)                                                           *)

Triggers == {"HttpTrigger1", "HttpTrigger3", "HttpTrigger4"}

\* the export functions a trigger runs, in order: final, final3, final4
Final(trigger) ==
    CASE trigger = "HttpTrigger1" -> <<"quote", "organisation">>
      [] trigger = "HttpTrigger3" -> <<"equipment", "invoice", "users">>
      [] trigger = "HttpTrigger4" -> <<"task">>

\* HttpTrigger3 answers 202 at once and runs final3 on a background thread
InBackground(trigger) == trigger = "HttpTrigger3"

\* how get_access_token_via_refresh_token can end, with str(e) of what it raises
AcquireOutcomes ==
    {[raises |-> FALSE, message |-> ""],
     [raises |-> TRUE, message |-> "MSAL error"],
     [raises |-> TRUE, message |-> "Authentication failed."]}

\* what the except clause of the trigger answers
ErrorResponseBroken(message) ==
    [status_code |-> 200, status |-> "success", message |-> " Function executed successfully"]
ErrorResponse(message) == [status_code |-> 500, status |-> "error", message |-> message]

SuccessResponse ==
    [status_code |-> 200, status |-> "success", message |-> " Function executed successfully"]

StartedResponse ==
    [status_code |-> 202, status |-> "started",
     message |-> "Background export job started successfully"]

\* an exception leaves final*(): the trigger's except clause answers, the
\* background thread of HttpTrigger3 prints it
Abort(th, message) ==
    [th EXCEPT !.pc = "answered", !.err = message, !.path = "None", !.drive = "none",
               !.response = IF InBackground(th.trigger) THEN th.response
                            ELSE ErrorResponse(message)]

\* upload_if_file_exists has returned: the next export of final*(), or the
\* answer when it was the last one
NextStep(th) ==
    IF th.step < Len(Final(th.trigger))
    THEN [th EXCEPT !.pc = "export", !.step = th.step + 1,
                    !.path = "None", !.drive = "none"]
    ELSE [th EXCEPT !.pc = "answered", !.path = "None", !.drive = "none",
                    !.response = IF InBackground(th.trigger) THEN th.response
                                 ELSE SuccessResponse]

\* if file_path and os.path.exists(file_path)
ShouldUploadBroken(path, disk) == path # "None"
ShouldUpload(path, disk) == path # "None" /\ path \in disk

\* how main_drive can end: without a token it returns at once; the share link
\* may not resolve (warning, return); the PUT may be answered 200/201
\* ("uploaded") or otherwise ("rejected", logged); safe_request or open()
\* may raise
DriveOutcomes(token, present) ==
    IF token = "None" THEN {"no_token"}
    ELSE {"unresolved", "raised"} \cup (IF present THEN {"uploaded", "rejected"} ELSE {})

\* back in upload_if_file_exists: an exception is caught and logged, a
\* normal return is followed by os.remove
AfterDriveBroken(th, o) ==
    IF o = "raised" THEN Abort([th EXCEPT !.drive = o], "upload error")
    ELSE [th EXCEPT !.drive = o, !.pc = "up_remove"]
AfterDrive(th, o) ==
    IF o = "raised" THEN NextStep([th EXCEPT !.drive = o])
    ELSE [th EXCEPT !.drive = o, !.pc = "up_remove"]

InitTrigger ==
    /\ trToken = "None"
    /\ trCold = TRUE
    /\ trDisk = {}
    /\ trAcquired = 0
    /\ trThreads = [i \in 1..MaxInvocations |-> NoInvocation]
    /\ IdleButTr

\* a request arrives: main(req) starts (the invocations are numbered in the
\* order of their arrival)
TrInvoke(i) ==
    /\ trThreads[i].pc = "idle"
    /\ \A j \in 1..(i - 1) : trThreads[j].pc # "idle"
    /\ \E t \in Triggers :
          trThreads' = [trThreads EXCEPT ![i] =
             [@ EXCEPT !.trigger = t,
                       !.pc = IF t = "HttpTrigger1" THEN "init_test" ELSE "export",
                       !.step = 1,
                       !.response = IF InBackground(t) THEN StartedResponse ELSE NoResponse]]
    /\ UNCHANGED <<trToken, trCold, trDisk, trAcquired, othersTr>>

\* init_token_once: if ACCESS_TOKEN is None
TrInitTest(i) ==
    /\ trThreads[i].pc = "init_test"
    /\ trThreads' = [trThreads EXCEPT ![i].pc =
                        IF trToken = "None" THEN "init_acquire" ELSE "export"]
    /\ UNCHANGED <<trToken, trCold, trDisk, trAcquired, othersTr>>

\* init_token_once: ACCESS_TOKEN, SESSION = get_access_token_via_refresh_token(...)
TrInitAcquire(i) ==
    /\ trThreads[i].pc = "init_acquire"
    /\ trAcquired' = trAcquired + 1
    /\ \E o \in AcquireOutcomes :
          IF o.raises
          THEN /\ trThreads' = [trThreads EXCEPT ![i] = Abort(@, o.message)]
               /\ UNCHANGED trToken
          ELSE /\ trThreads' = [trThreads EXCEPT ![i].pc = "export"]
               /\ trToken' = "token"
    /\ UNCHANGED <<trCold, trDisk, othersTr>>

\* <file> = main_<domain>(): a file was written, None came back, or it raised
TrExport(i) ==
    /\ trThreads[i].pc = "export"
    /\ LET th == [trThreads[i] EXCEPT !.ran = @ + 1, !.drive = "none"]
           file == OutputFile(Final(th.trigger)[th.step])
       IN  \/ /\ trThreads' = [trThreads EXCEPT ![i] =
                                  [th EXCEPT !.pc = "up_check", !.path = file]]
              /\ trDisk' = trDisk \cup {file}
           \/ /\ trThreads' = [trThreads EXCEPT ![i] =
                                  [th EXCEPT !.pc = "up_check", !.path = "None"]]
              /\ UNCHANGED trDisk
           \/ /\ trThreads' = [trThreads EXCEPT ![i] = Abort(th, "export error")]
              /\ UNCHANGED trDisk
    /\ UNCHANGED <<trToken, trCold, trAcquired, othersTr>>

\* upload_if_file_exists: the test of file_path
TrUpCheck(i) ==
    /\ trThreads[i].pc = "up_check"
    /\ trThreads' = [trThreads EXCEPT ![i] =
                        IF ShouldUpload(@.path, trDisk) THEN [@ EXCEPT !.pc = "up_drive"]
                        ELSE NextStep(@)]
    /\ UNCHANGED <<trToken, trCold, trDisk, trAcquired, othersTr>>

\* upload_if_file_exists: main_drive(share_links, ACCESS_TOKEN, upload_file=file_path)
TrUpDrive(i) ==
    /\ trThreads[i].pc = "up_drive"
    /\ \E o \in DriveOutcomes(trToken, trThreads[i].path \in trDisk) :
          trThreads' = [trThreads EXCEPT ![i] = AfterDrive(@, o)]
    /\ trCold' = FALSE
    /\ UNCHANGED <<trToken, trDisk, trAcquired, othersTr>>

\* upload_if_file_exists: os.remove(file_path); FileNotFoundError is caught
TrUpRemove(i) ==
    /\ trThreads[i].pc = "up_remove"
    /\ trDisk' = trDisk \ {trThreads[i].path}
    /\ trThreads' = [trThreads EXCEPT ![i] = NextStep(@)]
    /\ UNCHANGED <<trToken, trCold, trAcquired, othersTr>>

NextTrigger ==
    \E i \in 1..MaxInvocations :
       \/ TrInvoke(i)
       \/ TrInitTest(i)
       \/ TrInitAcquire(i)
       \/ TrExport(i)
       \/ TrUpCheck(i)
       \/ TrUpDrive(i)
       \/ TrUpRemove(i)

SpecTrigger == InitTrigger /\ [][NextTrigger]_vars

----------------------------------------------------------------------------
(* Properties of the triggers and the orchestrator (checked under SpecTrigger) *)

\* C15 (as claimed): get_access_token_via_refresh_token is performed at most
\* once in the lifetime of the process.
C15_TokenOnce == trAcquired <= 1

\* invocation i takes the step
Moves(i) == trThreads'[i] # trThreads[i]

\* C16 (as claimed): upload_if_file_exists removes the local file only when
\* main_drive has uploaded it; with the token missing, the share link
\* unresolved, or the PUT rejected or raising, the file stays.
C16_DeleteAfterUpload ==
    [][\A i \in 1..MaxInvocations :
          (trThreads[i].pc = "up_remove" /\ Moves(i) /\ trDisk' # trDisk) =>
             trThreads[i].drive = "uploaded"]_vars

\* C17: when the export returned None, or a path whose file is not there,
\* upload_if_file_exists does not call main_drive, removes nothing and raises
\* nothing; the invocation goes on with its next export, or completes.
C17_SkipAbsent ==
    [][\A i \in 1..MaxInvocations :
          (/\ trThreads[i].pc = "up_check" /\ Moves(i)
           /\ (trThreads[i].path = "None" \/ trThreads[i].path \notin trDisk)) =>
             /\ trThreads'[i].pc \in {"export", "answered"}
             /\ trThreads'[i].drive = "none"
             /\ trCold' = trCold
             /\ trDisk' = trDisk
             /\ trThreads'[i].err = "none"
             /\ trThreads'[i].pc = "export" => trThreads'[i].step = trThreads[i].step + 1
             /\ trThreads'[i].pc = "answered" =>
                   /\ trThreads[i].step = Len(Final(trThreads[i].trigger))
                   /\ trThreads'[i].response.status_code \in {200, 202}]_vars

\* C17 witness: main_quote returned None, the upload was skipped and the
\* invocation stands at main_organisation: one export has run, no file was
\* ever written and main_drive was never entered
C17_Witness ==
    \E i \in 1..MaxInvocations :
       /\ trThreads[i].trigger = "HttpTrigger1"
       /\ trThreads[i].pc = "export" /\ trThreads[i].step = 2
       /\ trThreads[i].ran = 1 /\ trThreads[i].err = "none"
       /\ trCold /\ trDisk = {}

\* C17 witness of the other case: main_quote returned its path and the file
\* is gone when upload_if_file_exists looks
C17_WitnessNoFile ==
    \E i \in 1..MaxInvocations :
       /\ trThreads[i].trigger = "HttpTrigger1"
       /\ trThreads[i].pc = "up_check" /\ trThreads[i].step = 1
       /\ trThreads[i].path = "/tmp/Quotes.xlsx"
       /\ trThreads[i].path \notin trDisk

\* C18: a failed upload (share link unresolved, PUT rejected or raising) is
\* never what ends an invocation: after main_drive and after os.remove the
\* invocation goes on with the export of the next domain, and completes
\* normally after the last one.
C18_UploadFailureIsolated ==
    [][\A i \in 1..MaxInvocations :
          (trThreads[i].pc \in {"up_drive", "up_remove"} /\ Moves(i)) =>
             /\ trThreads'[i].pc \in {"up_remove", "export", "answered"}
             /\ trThreads'[i].err = "none"
             /\ trThreads'[i].pc = "export" =>
                   /\ trThreads'[i].step = trThreads[i].step + 1
                   /\ trThreads'[i].step <= Len(Final(trThreads[i].trigger))
             /\ trThreads'[i].pc = "answered" =>
                   /\ trThreads[i].step = Len(Final(trThreads[i].trigger))
                   /\ trThreads'[i].response.status_code \in {200, 202}]_vars

\* C18 witness: the only invocation of final3 stands at the export of the
\* users after the upload of its invoice file raised: the file is still on
\* disk, which os.remove would have taken away after any return of main_drive
C18_Witness ==
    \E i \in 1..MaxInvocations :
       /\ trThreads[i].trigger = "HttpTrigger3"
       /\ \A j \in 1..MaxInvocations \ {i} : trThreads[j].trigger # "HttpTrigger3"
       /\ trThreads[i].step = 3 /\ trThreads[i].pc = "export"
       /\ trThreads[i].ran = 2 /\ trThreads[i].err = "none"
       /\ "/tmp/invoice_records.xlsx" \in trDisk

\* C19: in HttpTrigger1 a failed token acquisition ends the invocation before
\* any export function has run, with status 500 and the exception's message
\* in the body; an invocation of HttpTrigger1 or HttpTrigger4 that ended
\* without an exception answered 200.
C19_AuthFailureAborts ==
    \A i \in 1..MaxInvocations :
       LET th == trThreads[i] IN
       /\ th.err \in {o.message : o \in {a \in AcquireOutcomes : a.raises}} =>
             /\ th.pc = "answered"
             /\ th.ran = 0
             /\ th.response = [status_code |-> 500, status |-> "error", message |-> th.err]
       /\ (th.pc = "answered" /\ th.err = "none" /\ ~InBackground(th.trigger)) =>
             /\ th.response.status_code = 200
             /\ th.response.status = "success"
       /\ (th.pc # "answered" /\ ~InBackground(th.trigger)) => th.response = NoResponse

\* C19 witness: the token request was answered without access_token; the
\* invocation answered 500 "Authentication failed." and ran no export
C19_Witness ==
    \E i \in 1..MaxInvocations :
       /\ trThreads[i].trigger = "HttpTrigger1"
       /\ trThreads[i].pc = "answered"
       /\ trThreads[i].err = "Authentication failed."
       /\ trThreads[i].response.status_code = 500
       /\ trThreads[i].ran = 0

\* C19 witness of the other case: final() ran both exports and the trigger
\* answered 200
C19_WitnessSuccess ==
    \E i \in 1..MaxInvocations :
       /\ trThreads[i].trigger = "HttpTrigger1"
       /\ trThreads[i].pc = "answered"
       /\ trThreads[i].ran = 2
       /\ trThreads[i].response.status_code = 200

\* invocation j has written its version of the scratch file p and has not
\* yet passed it to main_drive
HoldsOwnVersion(j, p) ==
    /\ trThreads[j].pc \in {"up_check", "up_drive"}
    /\ trThreads[j].path = p

\* C27 (as claimed): two overlapping background runs of final3 do not meet on
\* the scratch files: no run passes a file to main_drive, or removes it,
\* while the other run has written its own version of that file and not yet
\* uploaded it.
C27_ScratchFilesIsolated ==
    [][\A i, j \in 1..MaxInvocations :
          (/\ i # j
           /\ trThreads[i].trigger = "HttpTrigger3"
           /\ trThreads[j].trigger = "HttpTrigger3"
           /\ trThreads[i].pc \in {"up_drive", "up_remove"}
           /\ Moves(i)) =>
             ~HoldsOwnVersion(j, trThreads[i].path)]_vars

\* C28 (as claimed): whenever an invocation is about to call main_drive for
\* the file of an export, ACCESS_TOKEN has been initialised.
C28_TokenBeforeUpload ==
    \A i \in 1..MaxInvocations :
       trThreads[i].pc = "up_drive" => trToken # "None"

\* the same for the trigger that calls init_token_once
C28_Trigger1HasToken ==
    \A i \in 1..MaxInvocations :
       (trThreads[i].pc = "up_drive" /\ trThreads[i].trigger = "HttpTrigger1") =>
          trToken # "None"

----------------------------------------------------------------------------
(* The Site Name of an opportunity row: build_site_links and the loop body *)
(* of main_opportunity (opportunity.py)                                     *)

\* the OpportunityLink records the endpoint may hold: links of opportunity 7
\* to organisations 1..4 (organisation 2 also with its ID as a string), a
\* link without object ID, a link to a contact, a link of opportunity 8
LinkRecords ==
    {[LINK_OBJECT_NAME |-> "Organisation", OPPORTUNITY_ID |-> PyInt(<<"7">>), LINK_OBJECT_ID |-> l] :
        l \in {PyInt(<<"1">>), PyInt(<<"2">>), PyStr(<<"2">>), PyInt(<<"3">>), PyInt(<<"4">>), PyNone}}
    \cup {[LINK_OBJECT_NAME |-> "Contact", OPPORTUNITY_ID |-> PyInt(<<"7">>),
           LINK_OBJECT_ID |-> PyInt(<<"2">>)],
          [LINK_OBJECT_NAME |-> "Organisation", OPPORTUNITY_ID |-> PyInt(<<"8">>),
           LINK_OBJECT_ID |-> PyInt(<<"2">>)]}

\* the Organisations collection: 1 and 2 are named, 3 has no name, 4 is unknown
SiteOrganisations ==
    <<[ORGANISATION_ID |-> PyInt(<<"1">>), ORGANISATION_NAME |-> PyStr(<<"A">>)],
      [ORGANISATION_ID |-> PyInt(<<"2">>), ORGANISATION_NAME |-> PyStr(<<"B", "\n">>)],
      [ORGANISATION_ID |-> PyInt(<<"3">>), ORGANISATION_NAME |-> PyNone]>>

\* orgs = {str(o["ORGANISATION_ID"]): o.get("ORGANISATION_NAME", "") for o in results["orgs"]}
OrgTable(records) ==
    [key \in {Str(records[k].ORGANISATION_ID) : k \in DOMAIN records} |->
        LET last == CHOOSE k \in DOMAIN records :
                       /\ Str(records[k].ORGANISATION_ID) = key
                       /\ \A j \in DOMAIN records :
                             Str(records[j].ORGANISATION_ID) = key => j <= k
        IN  records[last].ORGANISATION_NAME]

\* the opportunities a row is built for: primary organisation 1, "2", or none
SiteOpps ==
    {[OPPORTUNITY_ID |-> PyInt(<<"7">>), ORGANISATION_ID |-> o] :
        o \in {PyInt(<<"1">>), PyStr(<<"2">>), PyNone}}

\* the test of the loop of build_site_links
IsSiteLinkBroken(l) == IsTrue(l.OPPORTUNITY_ID) /\ IsTrue(l.LINK_OBJECT_ID)
IsSiteLink(l) ==
    /\ l.LINK_OBJECT_NAME = "Organisation"
    /\ IsTrue(l.OPPORTUNITY_ID)
    /\ IsTrue(l.LINK_OBJECT_ID)

\* site_links_map before the conversion: opportunity ID -> set of organisation IDs
SiteLinkSets(links) ==
    LET kept == {k \in DOMAIN links : IsSiteLink(links[k])} IN
    [opp_id \in {Str(links[k].OPPORTUNITY_ID) : k \in kept} |->
        {Str(links[k].LINK_OBJECT_ID) :
            k \in {j \in kept : Str(links[j].OPPORTUNITY_ID) = opp_id}}]

\* site_org_ids = [oid for oid in linked_org_ids if oid != org_id]
SiteOrgIdsBroken(linked_org_ids, org_id) == linked_org_ids
SiteOrgIds(linked_org_ids, org_id) ==
    SelectSeq(linked_org_ids, LAMBDA oid : oid # org_id)

\* site_names = [organisations.get(oid, "") for oid in site_org_ids if organisations.get(oid)]
SiteNames(site_org_ids, organisations) ==
    LET named == SelectSeq(site_org_ids,
                           LAMBDA oid : IsTrue(DictGet(organisations, oid, PyNone)))
    IN  [k \in DOMAIN named |-> DictGet(organisations, named[k], Blank)]

RECURSIVE JoinAnd(_)
\* " and ".join(site_names)
JoinAnd(names) ==
    IF names = <<>> THEN <<>>
    ELSE IF Len(names) = 1 THEN names[1].v
    ELSE names[1].v \o <<" ", "a", "n", "d", " ">> \o JoinAnd(Tail(names))

InitSite ==
    /\ \E n \in 0..MaxLinks :
          \E links \in [1..n -> LinkRecords], opp \in SiteOpps :
             stIn = [links |-> links, opp |-> opp]
    /\ stPc = "links"
    /\ stMap = <<>>
    /\ stIds = <<>>
    /\ stNames = <<>>
    /\ stName = <<>>
    /\ IdleButSt

\* site_links_map = build_site_links(); list(v) of a set yields its elements
\* in an order the program does not control
StBuildLinks ==
    /\ stPc = "links"
    /\ LET sets == SiteLinkSets(stIn.links) IN
       \E m \in [DOMAIN sets -> UNION {Perms(sets[k]) : k \in DOMAIN sets}] :
          /\ \A k \in DOMAIN sets : m[k] \in Perms(sets[k])
          /\ stMap' = m
    /\ stPc' = "row"
    /\ UNCHANGED <<stIn, stIds, stNames, stName, othersSt>>

\* the Site Name of the row of stIn.opp (opportunity.py 335-349, 389)
StRow ==
    /\ stPc = "row"
    /\ LET organisations == OrgTable(SiteOrganisations)
           org_id == Str(OrEmpty(stIn.opp.ORGANISATION_ID))
           opp_id_str == Str(stIn.opp.OPPORTUNITY_ID)
           linked_org_ids == DictGet(stMap, opp_id_str, <<>>)
           site_org_ids == SiteOrgIds(linked_org_ids, org_id)
           site_names == SiteNames(site_org_ids, organisations)
       IN  /\ stIds' = site_org_ids
           /\ stNames' = site_names
           /\ stName' = clean_text(PyStr(JoinAnd(site_names)))
    /\ stPc' = "done"
    /\ UNCHANGED <<stIn, stMap, othersSt>>

NextSite == StBuildLinks \/ StRow

SpecSite == InitSite /\ [][NextSite]_vars

----------------------------------------------------------------------------
(* Properties of the Site Name (checked under SpecSite) *)

\* the organisations linked to the opportunity of the row, by the string
\* form of their ID
LinkedOrganisations ==
    {Str(stIn.links[k].LINK_OBJECT_ID) :
        k \in {j \in DOMAIN stIn.links :
                  /\ stIn.links[j].LINK_OBJECT_NAME = "Organisation"
                  /\ stIn.links[j].LINK_OBJECT_ID # PyNone
                  /\ Str(stIn.links[j].OPPORTUNITY_ID) = Str(stIn.opp.OPPORTUNITY_ID)}}

\* the name the collection holds for an organisation, <<>> when it has none
CollectionName(oid) ==
    LET hit == {k \in DOMAIN SiteOrganisations :
                   /\ Str(SiteOrganisations[k].ORGANISATION_ID) = oid
                   /\ SiteOrganisations[k].ORGANISATION_NAME.t = "str"}
    IN  IF hit = {} THEN <<>>
        ELSE SiteOrganisations[CHOOSE k \in hit : TRUE].ORGANISATION_NAME.v

\* the primary organisation of the opportunity, <<>> when it has none
PrimaryOrganisation ==
    IF stIn.opp.ORGANISATION_ID = PyNone THEN <<>> ELSE Str(stIn.opp.ORGANISATION_ID)

\* C23: the Site Name is built from the Organisation links of the opportunity
\* whose organisation is not its primary one: the primary organisation never
\* contributes, every other linked organisation with a name contributes once,
\* those without a name are left out, and the cell is their names joined.
C23_SiteName ==
    stPc = "done" =>
       LET others == LinkedOrganisations \ {PrimaryOrganisation}
           named == {o \in others : CollectionName(o) # <<>>}
       IN  /\ \A k \in DOMAIN stIds : stIds[k] # PrimaryOrganisation
           /\ {stIds[k] : k \in DOMAIN stIds} = others
           /\ \A i, j \in DOMAIN stIds : i # j => stIds[i] # stIds[j]
           /\ Len(stNames) = Cardinality(named)
           /\ \A o \in named :
                 Cardinality({k \in DOMAIN stNames :
                                 stNames[k] = PyStr(CollectionName(o))}) = 1
           /\ \E p \in Perms(named) :
                 stName = clean_text(PyStr(JoinAnd([k \in DOMAIN p |->
                                                      PyStr(CollectionName(p[k]))])))

\* C23 witness: opportunity 7 with primary organisation 1 is linked to 1, 2
\* and 3; the Site Name is the name of 2 alone
C23_Witness ==
    /\ stPc = "done"
    /\ stIn.opp.ORGANISATION_ID = PyInt(<<"1">>)
    /\ LinkedOrganisations = {<<"1">>, <<"2">>, <<"3">>}
    /\ stName = PyStr(<<"B">>)

\* C23 witness with two names: no primary organisation, links to 1 and 2
\* (the line break of the first name is a blank in the cell)
C23_WitnessJoined ==
    /\ stPc = "done"
    /\ stIn.opp.ORGANISATION_ID = PyNone
    /\ LinkedOrganisations = {<<"1">>, <<"2">>}
    /\ stName = PyStr(<<"B", " ", " ", "a", "n", "d", " ", "A">>)

----------------------------------------------------------------------------
(* The worker pool of fetch_all_paged on its own: the with block of         *)
(* equiment.py / invoice.py (max_workers=10) and of opportunity.py          *)
(* (min(20, total_pages or 1)). A page fetch is one step here; the workers  *)
(* are interchangeable, so the state keeps how many are inside fetch_page.  *)

InitPool ==
    /\ \E v \in Variants :
          \E n \in (IF v = "opportunity" THEN 1 ELSE 0)..MaxPages :
             plArgs = [variant |-> v, total_pages |-> n]
    /\ plPc = "submit"
    /\ plNext = 0
    /\ plQueue = <<>>
    /\ plTaken = <<>>
    /\ plBusy = 0
    /\ plDone = 0
    /\ IdleButPl

\* futures = {ex.submit(fetch_page, i): i for i in range(total_pages)}: one
\* iteration, or the end of the comprehension
PlSubmit ==
    /\ plPc = "submit"
    /\ IF plNext < plArgs.total_pages
       THEN /\ plQueue' = Append(plQueue, plNext)
            /\ plNext' = plNext + 1
            /\ UNCHANGED plPc
       ELSE /\ plPc' = "as_completed"
            /\ UNCHANGED <<plQueue, plNext>>
    /\ UNCHANGED <<plArgs, plTaken, plBusy, plDone, othersPl>>

\* a worker thread of the executor takes the oldest item off the work queue
\* and enters fetch_page; the executor runs at most max_workers threads
PlTake ==
    /\ plQueue # <<>>
    /\ plBusy < MaxWorkers(plArgs.variant, plArgs.total_pages)
    /\ plTaken' = Append(plTaken, Head(plQueue))
    /\ plQueue' = Tail(plQueue)
    /\ plBusy' = plBusy + 1
    /\ UNCHANGED <<plArgs, plPc, plNext, plDone, othersPl>>

\* fetch_page returns in one of the workers
PlFinish ==
    /\ plBusy > 0
    /\ plBusy' = plBusy - 1
    /\ plDone' = plDone + 1
    /\ UNCHANGED <<plArgs, plPc, plNext, plQueue, plTaken, othersPl>>

\* as_completed has yielded every future; the with block is left
PlReturn ==
    /\ plPc = "as_completed"
    /\ plDone = plArgs.total_pages
    /\ plPc' = "done"
    /\ UNCHANGED <<plArgs, plNext, plQueue, plTaken, plBusy, plDone, othersPl>>

NextPool == PlSubmit \/ PlTake \/ PlFinish \/ PlReturn

SpecPool == InitPool /\ [][NextPool]_vars

----------------------------------------------------------------------------
(* Properties of the worker pool (checked under SpecPool) *)

\* C26: the page requests in flight never exceed the pool size, 10 in the
\* equipment and invoice modules and min(20, totalPages) in the opportunity
\* module, and every page index of [0, totalPages) is dispatched exactly
\* once: never twice, and all of them by the time the call returns.
C26_PoolBound ==
    /\ plArgs.variant = "equipment" => plBusy <= 10
    /\ plArgs.variant = "opportunity" =>
          plBusy <= (IF plArgs.total_pages < 20 THEN plArgs.total_pages ELSE 20)
    /\ \A i, j \in DOMAIN plTaken : i # j => plTaken[i] # plTaken[j]
    /\ \A i \in DOMAIN plTaken : plTaken[i] \in 0..(plArgs.total_pages - 1)
    /\ plPc = "done" =>
          {plTaken[i] : i \in DOMAIN plTaken} = 0..(plArgs.total_pages - 1)

\* C26 witness: twelve pages in the equipment module, ten fetches running
\* and the other two pages waiting in the queue
C26_Witness ==
    /\ plArgs = [variant |-> "equipment", total_pages |-> 12]
    /\ plBusy = 10
    /\ Len(plQueue) = 2

\* C26 witness in the opportunity module: twenty-one pages, twenty fetches
\* running, one page waiting
C26_WitnessCap ==
    /\ plArgs = [variant |-> "opportunity", total_pages |-> 21]
    /\ plBusy = 20
    /\ Len(plQueue) = 1

----------------------------------------------------------------------------
(* build_opp_product_maps (opportunity.py): process_line_item runs in a     *)
(* pool of 20 workers over two dicts of sets shared by all of them          *)

\* the OpportunityLineItem records the endpoint may hold
LineItems ==
    {[OPPORTUNITY_ID |-> o, PRICEBOOK_ENTRY_ID |-> e] :
        o \in {PyInt(<<"7">>), PyStr(<<"7">>)},
        e \in {PyInt(<<"1">>), PyInt(<<"2">>)}}
    \cup {[OPPORTUNITY_ID |-> PyInt(<<"7">>), PRICEBOOK_ENTRY_ID |-> PyInt(<<"3">>)],
          [OPPORTUNITY_ID |-> PyNone, PRICEBOOK_ENTRY_ID |-> PyInt(<<"1">>)],
          [OPPORTUNITY_ID |-> PyInt(<<"8">>), PRICEBOOK_ENTRY_ID |-> PyInt(<<"1">>)]}

\* the PricebookEntry collection: entry 1 sells product 1, entry 2 product 3,
\* entry 3 has no product
PricebookEntries ==
    <<[PRICEBOOK_ENTRY_ID |-> PyInt(<<"1">>), PRODUCT_ID |-> PyInt(<<"1">>)],
      [PRICEBOOK_ENTRY_ID |-> PyInt(<<"2">>), PRODUCT_ID |-> PyInt(<<"3">>)],
      [PRICEBOOK_ENTRY_ID |-> PyInt(<<"3">>), PRODUCT_ID |-> PyNone]>>

\* build_pricebook_entry_map: str(PRICEBOOK_ENTRY_ID) -> str(PRODUCT_ID) or ""
PricebookEntryMap ==
    [key \in {Str(PricebookEntries[k].PRICEBOOK_ENTRY_ID) : k \in DOMAIN PricebookEntries} |->
        LET e == PricebookEntries[CHOOSE k \in DOMAIN PricebookEntries :
                                     Str(PricebookEntries[k].PRICEBOOK_ENTRY_ID) = key]
        IN  IF IsTrue(e.PRODUCT_ID) THEN Str(e.PRODUCT_ID) ELSE <<>>]

\* the locals of process_line_item(li) once prod_id is known; skip says that
\* one of the two early returns was taken
Locals(li) ==
    IF ~IsTrue(li.OPPORTUNITY_ID) \/ ~IsTrue(li.PRICEBOOK_ENTRY_ID)
    THEN [skip |-> TRUE, opp_id_str |-> <<>>, prod_id |-> <<>>]
    ELSE LET prod_id == DictGet(PricebookEntryMap, Str(li.PRICEBOOK_ENTRY_ID), <<>>) IN
         [skip |-> prod_id = <<>>, opp_id_str |-> Str(li.OPPORTUNITY_ID), prod_id |-> prod_id]

\* d.setdefault(key, set()): one call into the dict, which keeps the set it
\* already holds
SetDefaultBroken(d, key) == DictSet(d, key, {})
SetDefault(d, key) == IF key \in DOMAIN d THEN d ELSE DictSet(d, key, {})

\* d[key].add(value) on the set object the dict holds
SetAdd(d, key, value) == DictSet(d, key, d[key] \cup {value})

InitMaps ==
    /\ \E n \in 0..MaxLineItems : \E items \in [1..n -> LineItems] : pmIn = items
    /\ pmPc = "submit"
    /\ pmW = <<>>
    /\ pmIds = <<>>
    /\ pmCodes = <<>>
    /\ pmOut = <<>>
    /\ IdleButPm

\* futures = [ex.submit(process_line_item, li) for li in line_items]
PmSubmit ==
    /\ pmPc = "submit"
    /\ pmW' = [k \in DOMAIN pmIn |-> "queued"]
    /\ pmPc' = "pool"
    /\ UNCHANGED <<pmIn, pmIds, pmCodes, pmOut, othersPm>>

\* a worker runs process_line_item up to the first access to the shared
\* dicts (opportunity.py 206-217)
PmStart(k) ==
    /\ pmPc = "pool"
    /\ pmW[k] = "queued"
    /\ pmW' = [pmW EXCEPT ![k] = IF Locals(pmIn[k]).skip THEN "done" ELSE "ids_setdefault"]
    /\ UNCHANGED <<pmIn, pmPc, pmIds, pmCodes, pmOut, othersPm>>

\* opp_product_ids.setdefault(opp_id_str, set())
PmIdsSetDefault(k) ==
    /\ pmPc = "pool"
    /\ pmW[k] = "ids_setdefault"
    /\ pmIds' = SetDefault(pmIds, Locals(pmIn[k]).opp_id_str)
    /\ pmW' = [pmW EXCEPT ![k] = "ids_add"]
    /\ UNCHANGED <<pmIn, pmPc, pmCodes, pmOut, othersPm>>

\* .add(prod_id); sku = product_codes.get(prod_id, ""); if sku:
PmIdsAdd(k) ==
    /\ pmPc = "pool"
    /\ pmW[k] = "ids_add"
    /\ LET l == Locals(pmIn[k]) IN
          /\ pmIds' = SetAdd(pmIds, l.opp_id_str, l.prod_id)
          /\ pmW' = [pmW EXCEPT ![k] = IF ProductCode(l.prod_id) # <<>>
                                       THEN "codes_setdefault" ELSE "done"]
    /\ UNCHANGED <<pmIn, pmPc, pmCodes, pmOut, othersPm>>

\* opp_product_codes.setdefault(opp_id_str, set())
PmCodesSetDefault(k) ==
    /\ pmPc = "pool"
    /\ pmW[k] = "codes_setdefault"
    /\ pmCodes' = SetDefault(pmCodes, Locals(pmIn[k]).opp_id_str)
    /\ pmW' = [pmW EXCEPT ![k] = "codes_add"]
    /\ UNCHANGED <<pmIn, pmPc, pmIds, pmOut, othersPm>>

\* .add(sku)
PmCodesAdd(k) ==
    /\ pmPc = "pool"
    /\ pmW[k] = "codes_add"
    /\ LET l == Locals(pmIn[k]) IN
          pmCodes' = SetAdd(pmCodes, l.opp_id_str, ProductCode(l.prod_id))
    /\ pmW' = [pmW EXCEPT ![k] = "done"]
    /\ UNCHANGED <<pmIn, pmPc, pmIds, pmOut, othersPm>>

\* the with block is left; {k: list(v) for k, v in ....items()} for both
\* dicts, each list in an order the program does not control
PmConvert ==
    /\ pmPc = "pool"
    /\ \A k \in DOMAIN pmW : pmW[k] = "done"
    /\ \E ids \in [DOMAIN pmIds -> UNION {Perms(pmIds[o]) : o \in DOMAIN pmIds}],
          codes \in [DOMAIN pmCodes -> UNION {Perms(pmCodes[o]) : o \in DOMAIN pmCodes}] :
          /\ \A o \in DOMAIN pmIds : ids[o] \in Perms(pmIds[o])
          /\ \A o \in DOMAIN pmCodes : codes[o] \in Perms(pmCodes[o])
          /\ pmOut' = [opp_product_ids |-> ids, opp_product_codes |-> codes]
    /\ pmPc' = "done"
    /\ UNCHANGED <<pmIn, pmW, pmIds, pmCodes, othersPm>>

NextMaps ==
    \/ PmSubmit
    \/ \E k \in DOMAIN pmW : PmStart(k)
    \/ \E k \in DOMAIN pmW : PmIdsSetDefault(k)
    \/ \E k \in DOMAIN pmW : PmIdsAdd(k)
    \/ \E k \in DOMAIN pmW : PmCodesSetDefault(k)
    \/ \E k \in DOMAIN pmW : PmCodesAdd(k)
    \/ PmConvert

SpecMaps == InitMaps /\ [][NextMaps]_vars

----------------------------------------------------------------------------
(* Properties of build_opp_product_maps (checked under SpecMaps) *)

\* the product a pricebook entry sells, <<>> when it sells none
ProductOfEntry(entry) ==
    LET hit == {k \in DOMAIN PricebookEntries :
                   /\ Str(PricebookEntries[k].PRICEBOOK_ENTRY_ID) = Str(entry)
                   /\ PricebookEntries[k].PRODUCT_ID # PyNone}
    IN  IF hit = {} THEN <<>>
        ELSE Str(PricebookEntries[CHOOSE k \in hit : TRUE].PRODUCT_ID)

\* the line items that have an opportunity ID and an entry selling a product
Resolved ==
    {k \in DOMAIN pmIn :
        /\ pmIn[k].OPPORTUNITY_ID # PyNone
        /\ pmIn[k].PRICEBOOK_ENTRY_ID # PyNone
        /\ ProductOfEntry(pmIn[k].PRICEBOOK_ENTRY_ID) # <<>>}

\* the values of a list, and whether it holds none of them twice
Elements(list) == {list[i] : i \in DOMAIN list}
NoRepeat(list) == \A i, j \in DOMAIN list : i # j => list[i] # list[j]

\* C30: however the workers interleave, the maps returned hold, for every
\* line item with an opportunity ID and an entry that resolves to a product,
\* that product in the opportunity's product list and its SKU, if it has one,
\* in the SKU list; no list holds a value twice; and the lists hold nothing
\* else, so the result is the same for every interleaving.
C30_MapsComplete ==
    pmPc = "done" =>
       LET ids == pmOut.opp_product_ids
           codes == pmOut.opp_product_codes
           opps == {Str(pmIn[k].OPPORTUNITY_ID) : k \in Resolved}
           products(o) == {ProductOfEntry(pmIn[k].PRICEBOOK_ENTRY_ID) :
                              k \in {j \in Resolved : Str(pmIn[j].OPPORTUNITY_ID) = o}}
           skus(o) == {ProductCode(p) : p \in products(o)} \ {<<>>}
       IN  /\ DOMAIN ids = opps
           /\ \A o \in opps : Elements(ids[o]) = products(o) /\ NoRepeat(ids[o])
           /\ DOMAIN codes = {o \in opps : skus(o) # {}}
           /\ \A o \in DOMAIN codes : Elements(codes[o]) = skus(o) /\ NoRepeat(codes[o])

\* C30 witness: two line items of opportunity 7 (its ID once as a number,
\* once as a string) with different products, both in its list
C30_Witness ==
    /\ pmPc = "done"
    /\ Len(pmIn) = 2
    /\ pmIn[1].OPPORTUNITY_ID # pmIn[2].OPPORTUNITY_ID
    /\ <<"7">> \in DOMAIN pmOut.opp_product_ids
    /\ Elements(pmOut.opp_product_ids[<<"7">>]) = {<<"1">>, <<"3">>}

\* C30 witness of the interleaving: both workers have called setdefault for
\* opportunity 7 before either has added its product
C30_WitnessInterleaved ==
    /\ pmPc = "pool"
    /\ Len(pmIn) = 2
    /\ pmW = <<"ids_add", "ids_add">>
    /\ Locals(pmIn[1]).opp_id_str = Locals(pmIn[2]).opp_id_str
    /\ Locals(pmIn[1]).prod_id # Locals(pmIn[2]).prod_id

----------------------------------------------------------------------------
(* safe_get as a state machine of its own *)

InitGet ==
    /\ \E m \in 0..MaxRetriesArg : sgCall = NewCall(m)
    /\ sgLog = <<>>
    /\ IdleButSg

SgRequest ==
    /\ sgCall.pc = "request"
    /\ \E o \in Outcomes :
          /\ sgCall' = SafeGetAttempt(sgCall, o)
          /\ sgLog' = Append(sgLog, [ev |-> "request", n |-> sgCall.attempt, out |-> o])
    /\ UNCHANGED othersSg

SgSleep ==
    /\ sgCall.pc = "sleep"
    /\ sgCall' = SafeGetSleep(sgCall)
    /\ sgLog' = Append(sgLog, [ev |-> "sleep", n |-> Wait(sgCall.attempt),
                               out |-> [exc |-> "none", status |-> 0]])
    /\ UNCHANGED othersSg

NextGet == SgRequest \/ SgSleep

SpecGet == InitGet /\ [][NextGet]_vars

----------------------------------------------------------------------------
(* Properties of safe_get (checked under SpecGet) *)

ReqEvents == {i \in DOMAIN sgLog : sgLog[i].ev = "request"}
SleepEvents == {i \in DOMAIN sgLog : sgLog[i].ev = "sleep"}
FailedRetryable == {i \in ReqEvents : IsRetryable(sgLog[i].out)}

\* C5: one safe_get call issues at most max_retries requests; a request that
\* is not the first one follows only requests that ended in a connection
\* error, a chunked-transfer truncation or a timeout; and when the attempt
\* with index max_retries - 1 ends in one of these the call has returned None.
C5_BoundedRetries ==
    /\ Cardinality(ReqEvents) <= sgCall.max
    /\ sgCall.requests = Cardinality(ReqEvents)
    /\ \A i \in ReqEvents : \A j \in ReqEvents : i < j => IsRetryable(sgLog[i].out)
    /\ \A i \in FailedRetryable :
          sgLog[i].n = sgCall.max - 1 =>
             /\ i = Len(sgLog)
             /\ sgCall.pc = "returned"
             /\ sgCall.result = "None"

\* C5 witness: a call that used up all of at least three attempts
C5_Witness ==
    /\ sgCall.max >= 3
    /\ sgCall.pc = "returned"
    /\ sgCall.result = "None"
    /\ sgCall.requests = sgCall.max
    /\ IsRetryable(sgLog[Len(sgLog)].out)

\* C6: an attempt answered with a 4xx/5xx status ends the call at once with
\* None: the request is the last event of the call (no later request, no
\* later sleep), whatever happened before it.
C6_HTTPErrorIsTerminal ==
    \A i \in ReqEvents :
        RaisesHTTPError(sgLog[i].out) =>
           /\ i = Len(sgLog)
           /\ sgCall.pc = "returned"
           /\ sgCall.result = "None"

\* C6 witness: two retryable failures, then a 5xx answer on the third attempt
C6_Witness ==
    /\ Cardinality(FailedRetryable) = 2
    /\ Len(sgLog) > 0
    /\ RaisesHTTPError(sgLog[Len(sgLog)].out)
    /\ sgCall.requests = 3
    /\ sgCall.max > 3

RECURSIVE SumOfPowersOfTwo(_)
\* sum(2^i for i in range(k))
SumOfPowersOfTwo(k) ==
    IF k = 0 THEN 0 ELSE SumOfPowersOfTwo(k - 1) + 2 ^ (k - 1)

\* the i-th sleep of the call (0-indexed), as a position of the log
NthSleep(i) == CHOOSE p \in SleepEvents : Cardinality({q \in SleepEvents : q < p}) = i

\* C7: a call that returned a response after k retryable failures made k+1
\* requests and slept sum(2^i, i < k) seconds, the i-th sleep lasting 2^i;
\* a call whose max_retries attempts all failed slept only between the
\* attempts: its last event is the failed request, not a sleep.
C7_BackoffTiming ==
    LET k == Cardinality(FailedRetryable) IN
    /\ (sgCall.pc = "returned" /\ sgCall.result = "Response") =>
          /\ k < sgCall.max
          /\ sgCall.requests = k + 1
          /\ Cardinality(SleepEvents) = k
          /\ sgCall.slept = SumOfPowersOfTwo(k)
          /\ \A i \in 0..(k - 1) : sgLog[NthSleep(i)].n = 2 ^ i
    /\ (sgCall.pc = "returned" /\ k = sgCall.max /\ k > 0) =>
          /\ sgCall.result = "None"
          /\ sgLog[Len(sgLog)].ev = "request"
          /\ Cardinality(SleepEvents) = k - 1
          /\ sgCall.slept = SumOfPowersOfTwo(k - 1)

\* C7 witness: three failures, then success on the fourth attempt (7 s slept)
C7_Witness ==
    /\ sgCall.pc = "returned"
    /\ sgCall.result = "Response"
    /\ Cardinality(FailedRetryable) = 3
    /\ sgCall.slept = 7

\* C7 witness of the exhausted case is C5_Witness's state; this one names it
C7_WitnessExhausted ==
    /\ sgCall.pc = "returned"
    /\ Cardinality(FailedRetryable) = sgCall.max
    /\ sgCall.max = 4
    /\ sgCall.slept = 7

====
